---- MODULE Spec2Model ----
(***************************************************************************)
(* Model of the ensemble answer service (Go): the synchronous handler      *)
(* handleAnswer, the NDJSON streaming handler handleAnswerStream, the      *)
(* in-memory TTL cache and the fan-out / judge / synthesis pipeline.       *)
(*                                                                         *)
(* Strings are modelled character by character (run-length encoded), so   *)
(* that TrimSpace, ToLower, len, strings.Count and concatenation are       *)
(* computed and not assumed.  Fixed message literals (status and error     *)
(* texts) are kept as one atom: the handlers never inspect them.           *)
(* Go slices are 0-based, sequences here are 1-based: cands[i] in the code *)
(* is cands[i+1] here.                                                     *)
(* Time is counted in minutes.                                             *)
(***************************************************************************)
EXTENDS Integers, Sequences, FiniteSets, TLC

VARIABLES
    cacheMap,     \* the process-wide cache: key -> cacheItem [val, exp]
    now,          \* the wall clock, time.Now()
    backend,      \* what the generation backend answers (fixed per behaviour)
    pc,           \* position of the handler execution in progress
    handler,      \* "sync" (handleAnswer) or "stream" (handleAnswerStream)
    req,          \* the inbound request
    prompt,       \* req.Prompt after TrimSpace
    mode,         \* normalised mode
    key,          \* cacheKey(prompt, mode)
    cands,        \* result of fanOut
    scores,       \* result of judgeCandidates
    final,        \* the final answer chosen
    frames,       \* NDJSON frames handed to writeNDJSON, in order
    httpStatus,   \* status passed to writeJSON (0: writeJSON not called)
    body,         \* value passed to writeJSON: <<>> or <<v>>
    calls,        \* history: calls made by the execution in progress
    served,       \* history: <<prompt, mode>> -> payload last sent on a miss, and when
    finals,       \* history: <<handler, mode>> -> payload last sent on a miss
    \* fanOut seen goroutine by goroutine
    fpc,          \* position of fanOut: "idle", "collect", "returned"
    ctxDone,      \* the deadline of the shared context has passed
    workers,      \* provider -> [st, res, late]: the worker goroutine, what its call
                  \* returned, and whether it returned after the deadline
    ch,           \* the buffered result channel
    wg,           \* the WaitGroup counter
    closed,       \* close(ch) has run
    arrived,      \* history: the candidates in the order the collector took them
    taken,        \* history: every result the collecting loop received, in order
    \* the cache seen lock operation by lock operation
    cacheMu,      \* the RWMutex: [w: a writer holds it, r: number of readers]
    procs,        \* caller -> the cacheGet / cacheSet call it is in
    writes,       \* history: the cacheSet calls in the order they took the write lock
    \* ollamaGenerateStream seen line by line
    spc,          \* position of the call: "idle", "scanning", "returned"
    sline,        \* number of lines the scanner has delivered
    sfull,        \* the strings.Builder full: the text accumulated so far
    sink,         \* history: the fragments passed to onDelta, in order
    outcomes,     \* history: the (text, err) pairs the call has returned
    \* the backend calls of one execution under its context
    elapsed,      \* seconds since context.WithTimeout created ctx
    timed,        \* the stage whose backend call has been waited for
    ctxCalls      \* history: the backend calls made with ctx, in order

fanVars  == <<fpc, ctxDone, workers, ch, wg, closed, arrived, taken>>
lockVars == <<cacheMu, procs, writes>>
scanVars == <<spc, sline, sfull, sink, outcomes>>
dlVars   == <<elapsed, timed, ctxCalls>>

vars == <<cacheMap, now, backend, pc, handler, req, prompt, mode, key, cands,
          scores, final, frames, httpStatus, body, calls, served, finals,
          fanVars, lockVars, scanVars, dlVars>>

(***************************************************************************)
(* Strings, run-length encoded: a string is the sequence of its maximal    *)
(* runs <<c, n>> (character c repeated n > 0 times, adjacent runs of       *)
(* different characters), so two strings are equal iff their encodings are.*)
(***************************************************************************)
\* Joins adjacent runs of one character and drops empty runs
RECURSIVE Norm(_)
Norm(rs) ==
    IF rs = <<>> THEN <<>>
    ELSE LET h == Head(rs)
             t == Norm(Tail(rs))
         IN  IF h[2] = 0 THEN t
             ELSE IF t # <<>> /\ t[1][1] = h[1]
                  THEN <<<<h[1], h[2] + t[1][2]>>>> \o Tail(t)
                  ELSE <<h>> \o t

\* The string with the given characters, and c repeated n times
Str(chars) == Norm([i \in 1..Len(chars) |-> <<chars[i], 1>>])
Rep(c, n)  == Norm(<<<<c, n>>>>)

\* a + b
Cat(a, b) == Norm(a \o b)

RECURSIVE Concat(_)
Concat(ss) == IF ss = <<>> THEN <<>> ELSE Cat(Head(ss), Concat(Tail(ss)))

\* len(s)
RECURSIVE StrLen(_)
StrLen(s) == IF s = <<>> THEN 0 ELSE Head(s)[2] + StrLen(Tail(s))

SetMin(S) == CHOOSE x \in S : \A y \in S : x <= y
SetMax(S) == CHOOSE x \in S : \A y \in S : x >= y

WhiteSpace == {" ", "\t", "\n", "\r"}

\* strings.TrimSpace: drops leading and trailing white space
TrimSpace(s) ==
    LET keep == {i \in 1..Len(s) : s[i][1] \notin WhiteSpace}
    IN  IF keep = {} THEN <<>> ELSE SubSeq(s, SetMin(keep), SetMax(keep))

UpperLetters == <<"A","B","C","D","E","F","G","H","I","J","K","L","M",
                  "N","O","P","Q","R","S","T","U","V","W","X","Y","Z">>
LowerLetters == <<"a","b","c","d","e","f","g","h","i","j","k","l","m",
                  "n","o","p","q","r","s","t","u","v","w","x","y","z">>

LowerChar(c) ==
    IF \E k \in 1..Len(UpperLetters) : UpperLetters[k] = c
    THEN LowerLetters[CHOOSE k \in 1..Len(UpperLetters) : UpperLetters[k] = c]
    ELSE c

\* strings.ToLower
ToLower(s) == Norm([i \in 1..Len(s) |-> <<LowerChar(s[i][1]), s[i][2]>>])

\* strings.Count(s, c) for a one-character c
RECURSIVE Count(_, _)
Count(s, c) ==
    IF s = <<>> THEN 0
    ELSE (IF Head(s)[1] = c THEN Head(s)[2] ELSE 0) + Count(Tail(s), c)

\* A fixed message, kept as one atom
Lit(m) == <<<<m, 1>>>>

FAST    == Str(<<"f","a","s","t">>)
QUALITY == Str(<<"q","u","a","l","i","t","y">>)
Modes   == {FAST, QUALITY}
Handlers == {"sync", "stream"}

(***************************************************************************)
(* Data                                                                    *)
(***************************************************************************)
AnswerResponse(f, cs, cached, m) ==
    [Final |-> f, Candidates |-> cs, Cached |-> cached, Mode |-> m]

ZeroResponse == AnswerResponse(<<>>, <<>>, FALSE, <<>>)

Candidate(p, t, l) == [Provider |-> p, Text |-> t, LatencyMs |-> l]

errResp(m) == [Error |-> Lit(m)]

streamMsg(type, text, meta) == [Type |-> type, Text |-> text, Meta |-> meta]

(***************************************************************************)
(* Cache                                                                   *)
(***************************************************************************)
EmptyMap == [k \in {} |-> ZeroResponse]

\* Mutant: the key leaves the mode out
cacheKeyPromptOnly(p, m) == p

\* sha256 of mode + "::" + prompt, taken as injective on its argument
cacheKey(p, m) == Cat(Cat(m, Str(<<":", ":">>)), p)

\* Mutant: the expiry is not looked at
cacheGetNoExpiry(k, t) ==
    IF k \notin DOMAIN cacheMap
    THEN [val |-> ZeroResponse, ok |-> FALSE]
    ELSE [val |-> cacheMap[k].val, ok |-> TRUE]

\* time.Now().After(it.exp) is  t > it.exp
cacheGet(k, t) ==
    LET ok == k \in DOMAIN cacheMap
    IN  IF ~ok \/ t > cacheMap[k].exp
        THEN [val |-> ZeroResponse, ok |-> FALSE]
        ELSE [val |-> cacheMap[k].val, ok |-> TRUE]

\* Mutant: the entry expires the moment it is written
cacheSetNoTTL(k, v, ttl, t) ==
    [x \in DOMAIN cacheMap \cup {k} |->
        IF x = k THEN [val |-> v, exp |-> t] ELSE cacheMap[x]]

cacheSet(k, v, ttl, t) ==
    [x \in DOMAIN cacheMap \cup {k} |->
        IF x = k THEN [val |-> v, exp |-> t + ttl] ELSE cacheMap[x]]

(***************************************************************************)
(* Generation backend client                                               *)
(***************************************************************************)
\* A backend reply to a non-streaming call: [err, text].  err stands for a
\* transport error, a non-2xx status, a body that does not decode, or the
\* context deadline passing; text is the "response" field as sent.
ollamaGenerate(reply) ==
    IF reply.err
    THEN [text |-> <<>>, err |-> TRUE]
    ELSE [text |-> TrimSpace(reply.text), err |-> FALSE]

\* A backend reply to a streaming call: [err, lines, scanErr, sinkFailAt].
\* lines are the NDJSON lines received, each [kind, Response, Done] with
\* kind "blank" (white space only), "bad" (does not decode) or "chunk";
\* scanErr: the scanner stops with an error after the last line;
\* sinkFailAt = n > 0: the n-th call of onDelta returns an error.
\* The result carries the fragments passed to onDelta, in order.
RECURSIVE streamScan(_, _, _, _)
streamScan(reply, i, full, deltas) ==
    IF i > Len(reply.lines)
    THEN IF reply.scanErr
         THEN [text |-> full, err |-> TRUE, deltas |-> deltas]
         ELSE [text |-> TrimSpace(full), err |-> FALSE, deltas |-> deltas]
    ELSE LET ln == reply.lines[i] IN
         IF ln.kind = "blank" THEN streamScan(reply, i + 1, full, deltas)
         ELSE IF ln.kind = "bad"
         THEN [text |-> <<>>, err |-> TRUE, deltas |-> deltas]
         ELSE LET some    == ln.Response # <<>>
                  full2   == IF some THEN Cat(full, ln.Response) ELSE full
                  deltas2 == IF some THEN Append(deltas, ln.Response) ELSE deltas
              IN  IF some /\ Len(deltas2) = reply.sinkFailAt
                  THEN [text |-> full2, err |-> TRUE, deltas |-> deltas2]
                  ELSE IF ln.Done
                  THEN [text |-> TrimSpace(full2), err |-> FALSE, deltas |-> deltas2]
                  ELSE streamScan(reply, i + 1, full2, deltas2)

ollamaGenerateStream(reply) ==
    IF reply.err
    THEN [text |-> <<>>, err |-> TRUE, deltas |-> <<>>]
    ELSE streamScan(reply, 1, <<>>, <<>>)

(***************************************************************************)
(* Ensemble logic                                                          *)
(***************************************************************************)
ProvidersQuality == <<"llama3.2", "qwen2.5", "mistral">>
ProvidersFast    == <<"llama3.2", "qwen2.5">>

Perms(S) ==
    {f \in [1..Cardinality(S) -> S] : \A i, j \in 1..Cardinality(S) : f[i] = f[j] => i = j}

\* Mutant: a blank answer is kept as a candidate
fanOutKeepsBlank(providers, gen) ==
    LET good == {i \in 1..Len(providers) : ~gen[providers[i]].err}
        cand(i) == [Provider |-> providers[i],
                    Text |-> TrimSpace(gen[providers[i]].text),
                    LatencyMs |-> gen[providers[i]].lat]
    IN  {[k \in 1..Cardinality(good) |-> cand(f[k])] : f \in
            {g \in [1..Cardinality(good) -> good] :
                /\ \A a, b \in 1..Cardinality(good) : g[a] = g[b] => a = b
                /\ \A a, b \in 1..Cardinality(good) :
                    a < b => gen[providers[g[a]]].lat <= gen[providers[g[b]]].lat}}

\* The candidate lists fanOut can return: one candidate per provider whose
\* call returned no error and non-blank text, sorted by latency; results
\* arrive in completion order and sort.Slice is not stable, so candidates of
\* equal latency come in either order.
fanOut(providers, gen) ==
    LET res(p) == ollamaGenerate(gen[p])
        good   == {i \in 1..Len(providers) :
                     LET r == res(providers[i])
                     IN  ~r.err /\ TrimSpace(r.text) # <<>>}
        cand(i) == Candidate(providers[i], res(providers[i]).text, gen[providers[i]].lat)
    IN  {[k \in 1..Cardinality(good) |-> cand(f[k])] : f \in
            {g \in Perms(good) :
                \A a, b \in 1..Cardinality(good) :
                    a < b => gen[providers[g[a]]].lat <= gen[providers[g[b]]].lat}}

\* Mutant: the ranking is sorted with the lowest score first
judgeCandidatesAscending(reply, cs) ==
    IF Len(cs) = 0 \/ reply.err \/ ~reply.json THEN {[out |-> <<>>, err |-> TRUE]}
    ELSE LET valid == {i \in 1..Len(reply.arr) :
                          reply.arr[i].Idx >= 0 /\ reply.arr[i].Idx < Len(cs)}
             n     == Cardinality(valid)
         IN  IF n = 0 THEN {[out |-> <<>>, err |-> TRUE]}
             ELSE {[out |-> [k \in 1..n |-> reply.arr[f[k]]], err |-> FALSE] : f \in
                     {g \in Perms(valid) :
                         \A a, b \in 1..n :
                             a < b => reply.arr[g[a]].Score <= reply.arr[g[b]].Score}}

\* Mutant: a negative index passes the validation
judgeCandidatesNoLowerBound(reply, cs) ==
    IF Len(cs) = 0 \/ reply.err \/ ~reply.json THEN {[out |-> <<>>, err |-> TRUE]}
    ELSE LET valid == {i \in 1..Len(reply.arr) : reply.arr[i].Idx < Len(cs)}
             n     == Cardinality(valid)
         IN  IF n = 0 THEN {[out |-> <<>>, err |-> TRUE]}
             ELSE {[out |-> [k \in 1..n |-> reply.arr[f[k]]], err |-> FALSE] : f \in
                     {g \in Perms(valid) :
                         \A a, b \in 1..n :
                             a < b => reply.arr[g[a]].Score >= reply.arr[g[b]].Score}}

\* Mutant: one entry with a bad index makes the whole output fail
judgeCandidatesRejectsAll(reply, cs) ==
    IF Len(cs) = 0 \/ reply.err \/ ~reply.json THEN {[out |-> <<>>, err |-> TRUE]}
    ELSE LET valid == {i \in 1..Len(reply.arr) :
                          reply.arr[i].Idx >= 0 /\ reply.arr[i].Idx < Len(cs)}
             n     == Cardinality(valid)
         IN  IF n = 0 \/ n < Len(reply.arr) THEN {[out |-> <<>>, err |-> TRUE]}
             ELSE {[out |-> [k \in 1..n |-> reply.arr[f[k]]], err |-> FALSE] : f \in
                     {g \in Perms(valid) :
                         \A a, b \in 1..n :
                             a < b => reply.arr[g[a]].Score >= reply.arr[g[b]].Score}}

\* A judge reply: [err, json, arr]; json = FALSE: the text is no JSON array;
\* arr: the decoded entries [Idx, Score].  Returns the set of possible
\* results [out, err]: entries of equal score come in either order.
judgeCandidates(reply, cs) ==
    IF Len(cs) = 0 THEN {[out |-> <<>>, err |-> TRUE]}
    ELSE IF reply.err THEN {[out |-> <<>>, err |-> TRUE]}
    ELSE IF ~reply.json THEN {[out |-> <<>>, err |-> TRUE]}
    ELSE LET valid == {i \in 1..Len(reply.arr) :
                          reply.arr[i].Idx >= 0 /\ reply.arr[i].Idx < Len(cs)}
             n     == Cardinality(valid)
         IN  IF n = 0 THEN {[out |-> <<>>, err |-> TRUE]}
             ELSE {[out |-> [k \in 1..n |-> reply.arr[f[k]]], err |-> FALSE] : f \in
                     {g \in Perms(valid) :
                         \A a, b \in 1..n :
                             a < b => reply.arr[g[a]].Score >= reply.arr[g[b]].Score}}

\* Mutant: any candidate with more newlines than the best replaces it
RECURSIVE fastPickMostNewlinesFrom(_, _, _)
fastPickMostNewlinesFrom(cs, i, best) ==
    IF i > Len(cs) THEN best
    ELSE IF Count(cs[i].Text, "\n") > Count(best.Text, "\n")
         THEN fastPickMostNewlinesFrom(cs, i + 1, cs[i])
         ELSE fastPickMostNewlinesFrom(cs, i + 1, best)

fastPickMostNewlines(cs) == fastPickMostNewlinesFrom(cs, 2, cs[1])

RECURSIVE fastPickFrom(_, _, _)
fastPickFrom(cs, i, best) ==
    IF i > Len(cs) THEN best
    ELSE IF Count(cs[i].Text, "\n") > Count(best.Text, "\n") + 1
         THEN fastPickFrom(cs, i + 1, cs[i])
         ELSE fastPickFrom(cs, i + 1, best)

fastPick(cs) == fastPickFrom(cs, 2, cs[1])

SkipThreshold == 350

\* Mutant: answers at the threshold still count as close
shouldSkipAtThreshold(cs) ==
    IF Len(cs) < 2 THEN TRUE
    ELSE LET a == StrLen(cs[1].Text)
             b == StrLen(cs[2].Text)
             diff == IF a - b < 0 THEN -(a - b) ELSE a - b
         IN  diff <= SkipThreshold

shouldSkipJudgeInFastMode(cs) ==
    IF Len(cs) < 2 THEN TRUE
    ELSE LET a == StrLen(cs[1].Text)
             b == StrLen(cs[2].Text)
             diff == IF a - b < 0 THEN -(a - b) ELSE a - b
         IN  diff < SkipThreshold

\* top := cands[scores[0].Idx], plus cands[scores[1].Idx] when present
topOf(cs, sc) ==
    IF Len(sc) > 1 THEN <<cs[sc[1].Idx + 1], cs[sc[2].Idx + 1]>>
    ELSE <<cs[sc[1].Idx + 1]>>

(***************************************************************************)
(* Per-mode configuration of the handlers                                  *)
(***************************************************************************)
TTLFast    == 10
TTLQuality == 30
SynthLimit == 500

\* Mutant: the mode is compared as typed, in its own case
normModeNoLower(raw) ==
    LET m == TrimSpace(raw) IN IF m # QUALITY THEN FAST ELSE m

\* mode := strings.ToLower(strings.TrimSpace(req.Mode)); anything but
\* "quality" is "fast"
normMode(raw) ==
    LET m == ToLower(TrimSpace(raw)) IN IF m # QUALITY THEN FAST ELSE m

\* Mutant: the prompt is taken as sent
promptUntrimmed(r) == r.Prompt

\* req.Prompt = strings.TrimSpace(req.Prompt)
promptOf(r) == TrimSpace(r.Prompt)

providersFor(m) == IF m = QUALITY THEN ProvidersQuality ELSE ProvidersFast
\* Mutant: entries are written with no time to live
cacheTTLNone(m) == 0

cacheTTLFor(m)  == IF m = QUALITY THEN TTLQuality ELSE TTLFast

(***************************************************************************)
(* Writers                                                                 *)
(***************************************************************************)
\* writeNDJSON marshals the frame and writes one line; w is the sequence of
\* frames handed to it so far.  The handlers drop its error everywhere but
\* in the synthesis sink, where the backend reply's sinkFailAt stands for it.
writeNDJSON(w, v) == Append(w, v)

Status(t) == streamMsg("status", Lit(t), <<>>)
Delta(t)  == streamMsg("delta", t, <<>>)

\* Mutant: the failure is reported as a progress note
ErrorAsStatus(t) == streamMsg("status", Lit(t), <<>>)

ErrorMsg(t) == streamMsg("error", Lit(t), <<>>)

\* Mutant: the summary goes out as one more delta
MetaAsDelta(v) == streamMsg("delta", v.Final, <<>>)

Meta(v) == streamMsg("meta", <<>>, <<v>>)

RECURSIVE writeAll(_, _)
writeAll(w, vs) == IF vs = <<>> THEN w ELSE writeAll(writeNDJSON(w, Head(vs)), Tail(vs))

NoCalls == [gen |-> 0, judge |-> 0, synth |-> 0, get |-> 0, set |-> 0]

NoUpstream == "no model responses (is Ollama running on localhost:11434?)"

(***************************************************************************)
(* Inputs                                                                  *)
(***************************************************************************)
P == Str(<<"p">>)
Prompts == {P}

RawPrompts == {Str(<<" ">>), Str(<<" ", "p", "\n">>)}
RawModes   == {<<>>, Str(<<" ", "Q", "u", "a", "l", "i", "t", "y">>)}

\* A request that is not a POST, one whose body does not decode (the
\* request struct stays zero), and the well-formed ones.
Requests ==
    {[Method |-> "GET",  Parses |-> TRUE,  Prompt |-> <<>>, Mode |-> <<>>],
     [Method |-> "POST", Parses |-> FALSE, Prompt |-> <<>>, Mode |-> <<>>]}
    \cup {[Method |-> "POST", Parses |-> TRUE, Prompt |-> p, Mode |-> m] :
            p \in RawPrompts, m \in RawModes}

ZeroRequest == [Method |-> "GET", Parses |-> TRUE, Prompt |-> <<>>, Mode |-> <<>>]

TextA == Str(<<"a">>)
TextB == Cat(Str(<<"b", "\n", "\n">>), Rep("b", SynthLimit - 3))

gFail     == [err |-> TRUE,  text |-> <<>>, lat |-> 0]
gBlank(l) == [err |-> FALSE, text |-> Str(<<" ">>), lat |-> l]
gA(l)     == [err |-> FALSE, text |-> Concat(<<Str(<<" ">>), TextA, Str(<<"\n">>)>>), lat |-> l]
gB(l)     == [err |-> FALSE, text |-> TextB, lat |-> l]

Gen(x, y, z) ==
    [p \in {"llama3.2", "qwen2.5", "mistral"} |->
        IF p = "llama3.2" THEN x ELSE IF p = "qwen2.5" THEN y ELSE z]

GenReplies ==
    {Gen(gFail, gBlank(1), gFail),
     Gen(gA(2), gBlank(1), gFail),
     Gen(gA(2), gA(1), gFail),
     Gen(gA(1), gB(2), gFail),
     Gen(gB(2), gA(1), gA(3))}

\* Two answers whose lengths differ from TextA's by one less than the skip
\* threshold and by the threshold itself
TextC == Rep("c", SkipThreshold)
TextD == Rep("c", SkipThreshold + 1)

gC(l) == [err |-> FALSE, text |-> TextC, lat |-> l]
gD(l) == [err |-> FALSE, text |-> TextD, lat |-> l]

GenBoundary ==
    {Gen(gA(1), gC(2), gFail),
     Gen(gD(2), gA(1), gFail)}

Entry(i, s) == [Idx |-> i, Score |-> s]

JudgeReplies ==
    {[err |-> TRUE,  json |-> FALSE, arr |-> <<>>],
     [err |-> FALSE, json |-> FALSE, arr |-> <<>>],
     [err |-> FALSE, json |-> TRUE,  arr |-> <<Entry(7, 9), Entry(-1, 2)>>],
     [err |-> FALSE, json |-> TRUE,  arr |-> <<Entry(0, 3), Entry(1, 9), Entry(5, 10)>>],
     [err |-> FALSE, json |-> TRUE,  arr |-> <<Entry(0, 8), Entry(1, 2)>>]}

Chunk(t, d) == [kind |-> "chunk", Response |-> t, Done |-> d]
BlankLine   == [kind |-> "blank", Response |-> <<>>, Done |-> FALSE]
BadLine     == [kind |-> "bad",   Response |-> <<>>, Done |-> FALSE]

RECURSIVE wholeText(_)
wholeText(lines) ==
    IF lines = <<>> THEN <<>> ELSE Cat(Head(lines).Response, wholeText(Tail(lines)))

\* The backend's answer to the synthesis prompt: text is what a
\* non-streaming call returns, lines what a streaming call delivers.
Synth(e, lines, scanErr, sinkFailAt) ==
    [err |-> e, text |-> wholeText(lines), lines |-> lines,
     scanErr |-> scanErr, sinkFailAt |-> sinkFailAt]

SynthReplies ==
    {Synth(TRUE,  <<>>, FALSE, 0),
     Synth(FALSE, <<Chunk(Str(<<"m">>), FALSE), BlankLine, Chunk(<<>>, FALSE), Chunk(Str(<<"n">>), TRUE)>>, FALSE, 0),
     Synth(FALSE, <<Chunk(Str(<<" ", "m">>), FALSE), Chunk(Str(<<"n", "\n">>), TRUE)>>, FALSE, 0),
     Synth(FALSE, <<Chunk(Str(<<" ">>), TRUE)>>, FALSE, 0),
     Synth(FALSE, <<Chunk(Str(<<"m">>), FALSE), BadLine>>, FALSE, 0),
     Synth(FALSE, <<Chunk(Str(<<"m">>), FALSE)>>, TRUE, 0),
     Synth(FALSE, <<Chunk(Str(<<"m">>), FALSE), Chunk(Str(<<"n">>), TRUE)>>, FALSE, 1)}

\* A reply that no handler can consult is kept at one value: no judge call
\* follows an empty fan-out, and no synthesis call follows a failed judge.
Backends ==
    {b \in [gen : GenReplies, judge : JudgeReplies, synth : SynthReplies] :
        /\ (\A cs \in fanOut(ProvidersQuality, b.gen) : Len(cs) = 0)
              => b.judge = [err |-> TRUE, json |-> FALSE, arr |-> <<>>]
        /\ (\A cs \in fanOut(ProvidersQuality, b.gen) :
               \A res \in judgeCandidates(b.judge, cs) : res.err)
              => b.synth = Synth(TRUE, <<>>, FALSE, 0)}
    \cup
    \* the answers at the skip threshold, with a judge and a merge that succeed
    {[gen   |-> g,
      judge |-> [err |-> FALSE, json |-> TRUE, arr |-> <<Entry(0, 8), Entry(1, 2)>>],
      synth |-> Synth(FALSE, <<Chunk(Str(<<" ", "m">>), FALSE), Chunk(Str(<<"n", "\n">>), TRUE)>>, FALSE, 0)]
        : g \in GenBoundary}

(***************************************************************************)
(* State machine.  Handler executions are taken one at a time: a new       *)
(* request is received once the previous one has been answered.  The clock *)
(* may advance between any two steps.                                      *)
(***************************************************************************)
MaxTime == 20

\* No fanOut call is being followed goroutine by goroutine
FanIdle ==
    /\ fpc = "idle"
    /\ ctxDone = FALSE
    /\ workers = <<>>
    /\ ch = <<>>
    /\ wg = 0
    /\ closed = FALSE
    /\ arrived = <<>>
    /\ taken = <<>>

\* No cache call is being followed lock operation by lock operation
LockIdle ==
    /\ cacheMu = [w |-> FALSE, r |-> 0]
    /\ procs = <<>>
    /\ writes = <<>>

\* No streaming call is being followed line by line
ScanIdle ==
    /\ spc = "idle"
    /\ sline = 0
    /\ sfull = <<>>
    /\ sink = <<>>
    /\ outcomes = <<>>

\* No execution is being followed second by second
DlIdle ==
    /\ elapsed = 0
    /\ timed = "none"
    /\ ctxCalls = <<>>

NoneServed == [k \in Prompts \X Modes |-> <<>>]
NoneFinal  == [k \in Handlers \X Modes |-> <<>>]

Init ==
    /\ cacheMap = EmptyMap
    /\ now = 0
    /\ backend \in Backends
    /\ pc = "idle"
    /\ handler = "sync"
    /\ req = ZeroRequest
    /\ prompt = <<>>
    /\ mode = <<>>
    /\ key = <<>>
    /\ cands = <<>>
    /\ scores = <<>>
    /\ final = <<>>
    /\ frames = <<>>
    /\ httpStatus = 0
    /\ body = <<>>
    /\ calls = NoCalls
    /\ served = NoneServed
    /\ finals = NoneFinal
    /\ FanIdle
    /\ LockIdle
    /\ ScanIdle
    /\ DlIdle

\* Mutant: the status code is dropped and the default 200 goes out
writeJSONDefaultStatus(status, v) ==
    /\ httpStatus' = 200
    /\ body' = <<v>>
    /\ pc' = "done"

\* writeJSON(w, status, v) followed by return
writeJSON(status, v) ==
    /\ httpStatus' = status
    /\ body' = <<v>>
    /\ pc' = "done"

\* Mutant: the response is built already marked as cached
RespMarkedCached == AnswerResponse(final, cands, TRUE, mode)

\* The response built by AnswerResponse{Final: ..., Candidates: cands,
\* Cached: false, Mode: mode}
Resp == AnswerResponse(final, cands, FALSE, mode)

\* Method check, body decoding, prompt and mode normalisation, cache lookup;
\* on a hit the cached response is sent with Cached = true.
Receive(h, r) ==
    /\ pc \in {"idle", "done"}
    /\ handler' = h
    /\ req' = r
    /\ cands' = <<>> /\ scores' = <<>> /\ final' = <<>>
    /\ UNCHANGED <<fanVars, lockVars, scanVars, dlVars>>
    /\ UNCHANGED <<cacheMap, now, backend, served, finals>>
    /\ LET p   == promptOf(r)
           m   == normMode(r.Mode)
           k   == cacheKey(p, m)
           got == cacheGet(k, now)
           v   == [got.val EXCEPT !.Cached = TRUE]
       IN  IF r.Method # "POST"
           THEN /\ writeJSON(405, errResp("POST only"))
                /\ prompt' = <<>> /\ mode' = <<>> /\ key' = <<>>
                /\ frames' = <<>> /\ calls' = NoCalls
           ELSE IF ~r.Parses
           THEN /\ writeJSON(400, errResp("bad json"))
                /\ prompt' = <<>> /\ mode' = <<>> /\ key' = <<>>
                /\ frames' = <<>> /\ calls' = NoCalls
           ELSE IF p = <<>>
           THEN /\ writeJSON(400, errResp("prompt required"))
                /\ prompt' = p /\ mode' = <<>> /\ key' = <<>>
                /\ frames' = <<>> /\ calls' = NoCalls
           ELSE /\ prompt' = p /\ mode' = m /\ key' = k
                /\ calls' = [NoCalls EXCEPT !.get = 1]
                /\ IF got.ok
                   THEN IF h = "sync"
                        THEN /\ writeJSON(200, v)
                             /\ frames' = <<>>
                        ELSE /\ frames' = writeAll(<<>>,
                                    <<Status("cache hit"), Delta(got.val.Final), Meta(v)>>)
                             /\ httpStatus' = 0 /\ body' = <<>>
                             /\ pc' = "done"
                   ELSE /\ frames' = <<>>
                        /\ httpStatus' = 0 /\ body' = <<>>
                        /\ pc' = "fanout"

\* cands := fanOut(ctx, providers, req.Prompt); zero candidates is the
\* upstream-unavailable error.
FanOutStep ==
    /\ pc = "fanout"
    /\ \E cs \in fanOut(providersFor(mode), backend.gen) :
        LET w == IF handler = "stream"
                 THEN writeNDJSON(frames, Status("running models..."))
                 ELSE frames
        IN  /\ cands' = cs
            /\ calls' = [calls EXCEPT !.gen = @ + Len(providersFor(mode))]
            /\ IF Len(cs) = 0
               THEN IF handler = "sync"
                    THEN /\ writeJSON(502, errResp(NoUpstream))
                         /\ frames' = w
                    ELSE /\ frames' = writeNDJSON(w, ErrorMsg(NoUpstream))
                         /\ pc' = "done"
                         /\ UNCHANGED <<httpStatus, body>>
               ELSE /\ frames' = w
                    /\ pc' = "select"
                    /\ UNCHANGED <<httpStatus, body>>
    /\ UNCHANGED <<fanVars, lockVars, scanVars, dlVars>>
    /\ UNCHANGED <<cacheMap, now, backend, handler, req, prompt, mode, key,
                   scores, final, served, finals>>

\* handleAnswer: a single candidate is returned as is; fast mode takes the
\* shortcut when shouldSkipJudgeInFastMode.
SelectSync ==
    /\ pc = "select" /\ handler = "sync"
    /\ IF Len(cands) = 1
       THEN final' = cands[1].Text /\ pc' = "store"
       ELSE IF mode = FAST /\ shouldSkipJudgeInFastMode(cands)
       THEN final' = fastPick(cands).Text /\ pc' = "store"
       ELSE final' = final /\ pc' = "judge"
    /\ UNCHANGED <<fanVars, lockVars, scanVars, dlVars>>
    /\ UNCHANGED <<cacheMap, now, backend, handler, req, prompt, mode, key,
                   cands, scores, frames, httpStatus, body, calls, served, finals>>

\* handleAnswerStream: the fast shortcut needs two candidates or more.
SelectStream ==
    /\ pc = "select" /\ handler = "stream"
    /\ IF mode = FAST /\ Len(cands) >= 2 /\ shouldSkipJudgeInFastMode(cands)
       THEN /\ final' = fastPick(cands).Text
            /\ frames' = writeAll(frames,
                   <<Status("fast path (no judge)"), Delta(fastPick(cands).Text)>>)
            /\ pc' = "store"
       ELSE /\ final' = final
            /\ frames' = writeNDJSON(frames, Status("judging candidates..."))
            /\ pc' = "judge"
    /\ UNCHANGED <<fanVars, lockVars, scanVars, dlVars>>
    /\ UNCHANGED <<cacheMap, now, backend, handler, req, prompt, mode, key,
                   cands, scores, httpStatus, body, calls, served, finals>>

\* Mutant: a judge failure ends the execution with an error
JudgeStepSurfacesError ==
    /\ pc = "judge"
    /\ \E res \in judgeCandidates(backend.judge, cands) :
        IF res.err
        THEN /\ final' = final
             /\ scores' = <<>>
             /\ IF handler = "sync"
                THEN /\ writeJSON(502, errResp("judge failed"))
                     /\ frames' = frames
                ELSE /\ frames' = writeNDJSON(frames, ErrorMsg("judge failed"))
                     /\ pc' = "done"
                     /\ UNCHANGED <<httpStatus, body>>
        ELSE /\ final' = final
             /\ scores' = res.out
             /\ frames' = frames
             /\ pc' = "synth"
             /\ UNCHANGED <<httpStatus, body>>
    /\ calls' = [calls EXCEPT !.judge = @ + 1]
    /\ UNCHANGED <<fanVars, lockVars, scanVars, dlVars>>
    /\ UNCHANGED <<cacheMap, now, backend, handler, req, prompt, mode, key,
                   cands, served, finals>>

\* scores, err := judgeCandidates(...); on error fall back to fastPick.
JudgeStep ==
    /\ pc = "judge"
    /\ \E res \in judgeCandidates(backend.judge, cands) :
        IF res.err
        THEN /\ final' = fastPick(cands).Text
             /\ scores' = <<>>
             /\ frames' = IF handler = "stream"
                          THEN writeAll(frames,
                                 <<Status("judge failed; using best guess"),
                                   Delta(fastPick(cands).Text)>>)
                          ELSE frames
             /\ pc' = "store"
        ELSE /\ final' = final
             /\ scores' = res.out
             /\ frames' = frames
             /\ pc' = "synth"
    /\ calls' = [calls EXCEPT !.judge = @ + 1]
    /\ UNCHANGED <<fanVars, lockVars, scanVars, dlVars>>
    /\ UNCHANGED <<cacheMap, now, backend, handler, req, prompt, mode, key,
                   cands, httpStatus, body, served, finals>>

\* Mutant: fast mode attempts the merge whatever the length of the top answer
SynthSyncNoLimit ==
    /\ pc = "synth" /\ handler = "sync"
    /\ LET best   == cands[scores[1].Idx + 1].Text
           merged == ollamaGenerate(backend.synth)
       IN  /\ final' = IF ~merged.err /\ TrimSpace(merged.text) # <<>>
                       THEN merged.text ELSE best
           /\ calls' = [calls EXCEPT !.synth = @ + 1]
    /\ pc' = "store"
    /\ UNCHANGED <<fanVars, lockVars, scanVars, dlVars>>
    /\ UNCHANGED <<cacheMap, now, backend, handler, req, prompt, mode, key,
                   cands, scores, frames, httpStatus, body, served, finals>>

\* handleAnswer: synthesis in quality mode, and in fast mode when the top
\* answer is shorter than 500; a failed or blank merge keeps the top answer.
SynthSync ==
    /\ pc = "synth" /\ handler = "sync"
    /\ LET top    == topOf(cands, scores)
           best   == cands[scores[1].Idx + 1].Text
           merged == ollamaGenerate(backend.synth)
           try    == mode = QUALITY \/ StrLen(best) < SynthLimit
       IN  /\ final' = IF try /\ ~merged.err /\ TrimSpace(merged.text) # <<>>
                       THEN merged.text ELSE best
           /\ calls' = [calls EXCEPT !.synth = IF try THEN @ + 1 ELSE @]
    /\ pc' = "store"
    /\ UNCHANGED <<fanVars, lockVars, scanVars, dlVars>>
    /\ UNCHANGED <<cacheMap, now, backend, handler, req, prompt, mode, key,
                   cands, scores, frames, httpStatus, body, served, finals>>

\* Mutant: after a failed merge the fragments received so far stay the answer
SynthStreamKeepsPartial ==
    /\ pc = "synth" /\ handler = "stream"
    /\ LET w0   == writeNDJSON(frames, Status("synthesizing..."))
           r    == ollamaGenerateStream(backend.synth)
           w1   == writeAll(w0, [i \in 1..Len(r.deltas) |-> Delta(r.deltas[i])])
           acc  == Concat(r.deltas)
           best == cands[scores[1].Idx + 1].Text
       IN  IF r.err \/ TrimSpace(r.text) = <<>>
           THEN /\ frames' = writeAll(w1,
                      <<Status("synth failed; fallback to best candidate"), Delta(best)>>)
                /\ final' = Cat(acc, best)
           ELSE /\ frames' = w1
                /\ final' = TrimSpace(acc)
    /\ calls' = [calls EXCEPT !.synth = @ + 1]
    /\ pc' = "store"
    /\ UNCHANGED <<fanVars, lockVars, scanVars, dlVars>>
    /\ UNCHANGED <<cacheMap, now, backend, handler, req, prompt, mode, key,
                   cands, scores, httpStatus, body, served, finals>>

\* handleAnswerStream: streamed synthesis; every fragment is written as a
\* delta frame and accumulated; on error or a blank result the top answer
\* is sent as one more delta.
SynthStream ==
    /\ pc = "synth" /\ handler = "stream"
    /\ LET top  == topOf(cands, scores)
           w0   == writeNDJSON(frames, Status("synthesizing..."))
           r    == ollamaGenerateStream(backend.synth)
           w1   == writeAll(w0, [i \in 1..Len(r.deltas) |-> Delta(r.deltas[i])])
           acc  == Concat(r.deltas)
           best == cands[scores[1].Idx + 1].Text
       IN  IF r.err \/ TrimSpace(r.text) = <<>>
           THEN /\ frames' = writeAll(w1,
                      <<Status("synth failed; fallback to best candidate"), Delta(best)>>)
                /\ final' = best
           ELSE /\ frames' = w1
                /\ final' = TrimSpace(acc)
    /\ calls' = [calls EXCEPT !.synth = @ + 1]
    /\ pc' = "store"
    /\ UNCHANGED <<fanVars, lockVars, scanVars, dlVars>>
    /\ UNCHANGED <<cacheMap, now, backend, handler, req, prompt, mode, key,
                   cands, scores, httpStatus, body, served, finals>>

\* Mutant: the response goes out without being stored
StoreSkipped ==
    /\ pc = "store"
    /\ pc' = "reply"
    /\ UNCHANGED <<fanVars, lockVars, scanVars, dlVars>>
    /\ UNCHANGED <<cacheMap, now, backend, handler, req, prompt, mode, key, cands,
                   scores, final, frames, httpStatus, body, calls, served, finals>>

\* Mutant: the streaming handler keeps its responses out of the shared cache
StoreSyncOnly ==
    /\ pc = "store"
    /\ cacheMap' = IF handler = "sync"
                   THEN cacheSet(key, Resp, cacheTTLFor(mode), now)
                   ELSE cacheMap
    /\ calls' = [calls EXCEPT !.set = @ + 1]
    /\ pc' = "reply"
    /\ UNCHANGED <<fanVars, lockVars, scanVars, dlVars>>
    /\ UNCHANGED <<now, backend, handler, req, prompt, mode, key, cands, scores,
                   final, frames, httpStatus, body, served, finals>>

\* cacheSet(key, resp, cacheTTL)
Store ==
    /\ pc = "store"
    /\ cacheMap' = cacheSet(key, Resp, cacheTTLFor(mode), now)
    /\ calls' = [calls EXCEPT !.set = @ + 1]
    /\ pc' = "reply"
    /\ UNCHANGED <<fanVars, lockVars, scanVars, dlVars>>
    /\ UNCHANGED <<now, backend, handler, req, prompt, mode, key, cands, scores,
                   final, frames, httpStatus, body, served, finals>>

\* writeJSON(w, 200, resp), or the meta frame.  The clock does not advance
\* between Store and Reply, so served records the time of the store.
Reply ==
    /\ pc = "reply"
    /\ IF handler = "sync"
       THEN /\ writeJSON(200, Resp)
            /\ frames' = frames
       ELSE /\ frames' = writeNDJSON(frames, Meta(Resp))
            /\ pc' = "done"
            /\ UNCHANGED <<httpStatus, body>>
    /\ served' = [served EXCEPT ![<<prompt, mode>>] = <<[resp |-> Resp, at |-> now]>>]
    /\ finals' = [finals EXCEPT ![<<handler, mode>>] = <<Resp>>]
    /\ UNCHANGED <<fanVars, lockVars, scanVars, dlVars>>
    /\ UNCHANGED <<cacheMap, now, backend, handler, req, prompt, mode, key,
                   cands, scores, final, calls>>

\* The clock is read by cacheGet (in Receive) and by cacheSet (in Store)
\* alone, so it is advanced only where one of them comes next.
Tick ==
    /\ pc \in {"idle", "done", "store"}
    /\ now + TTLFast <= MaxTime
    /\ now' = now + TTLFast
    /\ UNCHANGED <<fanVars, lockVars, scanVars, dlVars>>
    /\ UNCHANGED <<cacheMap, backend, pc, handler, req, prompt, mode, key, cands,
                   scores, final, frames, httpStatus, body, calls, served, finals>>

Next ==
    \/ \E h \in Handlers, r \in Requests : Receive(h, r)
    \/ FanOutStep
    \/ SelectSync
    \/ SelectStream
    \/ JudgeStep
    \/ SynthSync
    \/ SynthStream
    \/ Store
    \/ Reply
    \/ Tick

Spec == Init /\ [][Next]_vars

(***************************************************************************)
(* fanOut, goroutine by goroutine: one worker per provider calls the       *)
(* backend under the shared context and sends its result on the buffered   *)
(* channel; a closer goroutine closes the channel once the WaitGroup is    *)
(* at zero; fanOut ranges over the channel, keeps the good results and     *)
(* sorts them.  The backend may answer at any moment or never; a call in   *)
(* flight returns an error once the context is done.                       *)
(***************************************************************************)
handlerVars == <<cacheMap, now, pc, handler, req, prompt, key, scores, final,
                 frames, httpStatus, body, calls, served, finals>>

\* One backend per generation reply; judge and synthesis are not called here
FanBackends ==
    {b \in Backends :
        /\ b.judge = [err |-> TRUE, json |-> FALSE, arr |-> <<>>]
        /\ b.synth = Synth(TRUE, <<>>, FALSE, 0)}
    \cup
    \* two answers measured with the same latency
    {[gen   |-> Gen(gA(1), gB(1), gA(2)),
      judge |-> [err |-> TRUE, json |-> FALSE, arr |-> <<>>],
      synth |-> Synth(TRUE, <<>>, FALSE, 0)]}

FanInit ==
    /\ cacheMap = EmptyMap
    /\ now = 0
    /\ backend \in FanBackends
    /\ pc = "idle"
    /\ handler = "sync"
    /\ req = ZeroRequest
    /\ prompt = P
    /\ mode \in Modes
    /\ key = <<>>
    /\ cands = <<>>
    /\ scores = <<>>
    /\ final = <<>>
    /\ frames = <<>>
    /\ httpStatus = 0
    /\ body = <<>>
    /\ calls = NoCalls
    /\ served = NoneServed
    /\ finals = NoneFinal
    /\ FanIdle
    /\ LockIdle
    /\ ScanIdle
    /\ DlIdle

ProviderSet(m) == {providersFor(m)[i] : i \in 1..Len(providersFor(m))}

\* type result struct { c Candidate; err error }
result(c, err) == [c |-> c, err |-> err]
ZeroCandidate  == Candidate(<<>>, <<>>, 0)

\* Mutant: the failure of one call cancels the calls still in flight
callCancelledBySibling ==
    ctxDone \/ \E q \in DOMAIN workers : workers[q].st = "done" /\ workers[q].res.err

\* Mutant: the call does not look at its context
callNeverCancelled == FALSE

\* The request made with NewRequestWithContext fails once ctx is done
callCancelled == ctxDone

\* Mutant: the slice is returned in arrival order
sortNone(cs) == {cs}

\* sort.Slice(cands, LatencyMs <): the sorted orders of cs (not stable)
sortByLatency(cs) ==
    {[k \in 1..Len(cs) |-> cs[f[k]]] : f \in
        {g \in Perms(1..Len(cs)) :
            \A a, b \in 1..Len(cs) : a < b => cs[g[a]].LatencyMs <= cs[g[b]].LatencyMs}}

\* ch, wg.Add(len(providers)), the worker goroutines and the closer start
FanBegin ==
    /\ fpc = "idle"
    /\ fpc' = "collect"
    /\ workers' = [p \in ProviderSet(mode) |->
                      [st |-> "calling", res |-> [text |-> <<>>, err |-> FALSE],
                       late |-> FALSE]]
    /\ ch' = <<>>
    /\ wg' = Len(providersFor(mode))
    /\ closed' = FALSE
    /\ cands' = <<>>
    /\ arrived' = <<>>
    /\ taken' = <<>>
    /\ UNCHANGED <<ctxDone, handlerVars, backend, mode, lockVars, scanVars, dlVars>>

\* The worker's ending: the result is sent on ch, then the deferred wg.Done
workerEnds(p, r) ==
    /\ workers' = [workers EXCEPT ![p] = [st |-> "done", res |-> r, late |-> ctxDone]]
    /\ ch' = Append(ch, IF r.err \/ TrimSpace(r.text) = <<>>
                        THEN result(ZeroCandidate, r.err)
                        ELSE result(Candidate(p, r.text, backend.gen[p].lat), FALSE))
    /\ wg' = wg - 1
    /\ UNCHANGED <<fpc, ctxDone, closed, cands, arrived, taken, handlerVars, backend,
                   mode, lockVars, scanVars, dlVars>>

\* The backend answers the call of worker p.  An answer that comes in as
\* the deadline passes may still be returned by the call: the client picks
\* between the response and the context's end when both are ready.
WorkerReply(p) ==
    /\ fpc = "collect"
    /\ p \in DOMAIN workers /\ workers[p].st = "calling"
    /\ workerEnds(p, ollamaGenerate(backend.gen[p]))

\* The call of worker p ends with the context's error
WorkerCancelled(p) ==
    /\ fpc = "collect"
    /\ p \in DOMAIN workers /\ workers[p].st = "calling"
    /\ callCancelled
    /\ workerEnds(p, [text |-> <<>>, err |-> TRUE])

\* The timeout of context.WithTimeout passes
Deadline ==
    /\ fpc = "collect"
    /\ ~ctxDone
    /\ ctxDone' = TRUE
    /\ UNCHANGED <<fpc, workers, ch, wg, closed, cands, arrived, taken, handlerVars,
                   backend, mode, lockVars, scanVars, dlVars>>

\* Mutant: the closer does not wait for the workers
CloseChEarly ==
    /\ fpc = "collect"
    /\ ~closed
    /\ closed' = TRUE
    /\ UNCHANGED <<fpc, ctxDone, workers, ch, wg, cands, arrived, taken, handlerVars,
                   backend, mode, lockVars, scanVars, dlVars>>

\* go func() { wg.Wait(); close(ch) }()
CloseCh ==
    /\ fpc = "collect"
    /\ wg = 0 /\ ~closed
    /\ closed' = TRUE
    /\ UNCHANGED <<fpc, ctxDone, workers, ch, wg, cands, arrived, taken, handlerVars,
                   backend, mode, lockVars, scanVars, dlVars>>

\* for r := range ch: one result is taken, and appended when it is good
Collect ==
    /\ fpc = "collect"
    /\ ch # <<>>
    /\ ch' = Tail(ch)
    /\ LET r == Head(ch)
           good == ~r.err /\ TrimSpace(r.c.Text) # <<>>
       IN  /\ cands' = IF good THEN Append(cands, r.c) ELSE cands
           /\ arrived' = IF good THEN Append(arrived, r.c) ELSE arrived
           /\ taken' = Append(taken, r)
    /\ UNCHANGED <<fpc, ctxDone, workers, wg, closed, handlerVars, backend,
                   mode, lockVars, scanVars, dlVars>>

\* The range ends on the closed, drained channel; sort and return
FanReturn ==
    /\ fpc = "collect"
    /\ ch = <<>> /\ closed
    /\ cands' \in sortByLatency(cands)
    /\ fpc' = "returned"
    /\ UNCHANGED <<ctxDone, workers, ch, wg, closed, arrived, taken, handlerVars,
                   backend, mode, lockVars, scanVars, dlVars>>

FanNext ==
    \/ FanBegin
    \/ \E p \in ProviderSet(mode) : WorkerReply(p)
    \/ \E p \in ProviderSet(mode) : WorkerCancelled(p)
    \/ Deadline
    \/ CloseCh
    \/ Collect
    \/ FanReturn

FanSpec == FanInit /\ [][FanNext]_vars

\* The Go scheduler runs every runnable goroutine, and a call whose context
\* is done returns; the backend, though, need never answer.
FanLive ==
    /\ FanSpec
    /\ \A p \in {"llama3.2", "qwen2.5", "mistral"} : WF_vars(WorkerCancelled(p))
    /\ WF_vars(CloseCh)
    /\ WF_vars(Collect)
    /\ WF_vars(FanReturn)

(***************************************************************************)
(* The handlers under a wider choice of mode values: absent, "quality" in  *)
(* several spellings, and values that are no mode.                         *)
(***************************************************************************)
ModeInputs ==
    {<<>>,
     Str(<<" ", "Q", "u", "a", "l", "i", "t", "y">>),
     Str(<<"Q", "U", "A", "L", "I", "T", "Y", "\n">>),
     Str(<<"q", "u", "a", "l", "i", "t", "y">>),
     Str(<<"q">>),
     Str(<<"q", "u", "a", "l", "i", "t", "y", "!">>),
     Str(<<"F", "a", "s", "t">>)}

ModeRequests ==
    {[Method |-> "POST", Parses |-> TRUE, Prompt |-> Str(<<" ", "p", "\n">>), Mode |-> m] :
        m \in ModeInputs}

ModeBackends ==
    {b \in Backends :
        /\ b.gen \in {Gen(gB(2), gA(1), gA(3)), Gen(gA(2), gBlank(1), gFail)}
        /\ b.judge = [err |-> FALSE, json |-> TRUE, arr |-> <<Entry(0, 8), Entry(1, 2)>>]
        /\ b.synth = Synth(FALSE, <<Chunk(Str(<<"m">>), FALSE), BlankLine,
                                    Chunk(<<>>, FALSE), Chunk(Str(<<"n">>), TRUE)>>, FALSE, 0)}

ModeInit ==
    /\ cacheMap = EmptyMap
    /\ now = 0
    /\ backend \in ModeBackends
    /\ pc = "idle"
    /\ handler = "sync"
    /\ req = ZeroRequest
    /\ prompt = <<>>
    /\ mode = <<>>
    /\ key = <<>>
    /\ cands = <<>>
    /\ scores = <<>>
    /\ final = <<>>
    /\ frames = <<>>
    /\ httpStatus = 0
    /\ body = <<>>
    /\ calls = NoCalls
    /\ served = NoneServed
    /\ finals = NoneFinal
    /\ FanIdle
    /\ LockIdle
    /\ ScanIdle
    /\ DlIdle

ModeNext ==
    \/ \E h \in Handlers, r \in ModeRequests : Receive(h, r)
    \/ FanOutStep
    \/ SelectSync
    \/ SelectStream
    \/ JudgeStep
    \/ SynthSync
    \/ SynthStream
    \/ Store
    \/ Reply
    \/ Tick

ModeSpec == ModeInit /\ [][ModeNext]_vars

(***************************************************************************)
(* The cache under concurrent callers, lock operation by lock operation.   *)
(* cacheGet: RLock, read the entry, RUnlock, then test the expiry on the   *)
(* copy.  cacheSet: Lock, build the item with time.Now().Add(ttl), store   *)
(* it, Unlock.  The store of the two-field item is not atomic: it is taken *)
(* as two steps, so that what the lock protects is visible.                *)
(***************************************************************************)
NCallers == 3
Callers  == 1..NCallers

CacheKeys == {cacheKey(P, m) : m \in Modes}
ModeOfKey(k) == CHOOSE m \in Modes : cacheKey(P, m) = k

\* The response caller c stores: its final tells the callers apart
ValueOf(c, k) == AnswerResponse(Rep("v", c), <<>>, FALSE, ModeOfKey(k))

cacheItem(v, e) == [val |-> v, exp |-> e]
ZeroItem == cacheItem(ZeroResponse, 0)

IdleCall ==
    [pc |-> "idle", op |-> "none", key |-> <<>>, item |-> ZeroItem,
     it |-> ZeroItem, ok |-> FALSE, ret |-> [val |-> ZeroResponse, ok |-> FALSE]]

CacheInit ==
    /\ cacheMap = EmptyMap
    /\ now = 0
    /\ backend \in {b \in FanBackends : b.gen = Gen(gFail, gBlank(1), gFail)}
    /\ pc = "idle"
    /\ handler = "sync"
    /\ req = ZeroRequest
    /\ prompt = <<>>
    /\ mode = <<>>
    /\ key = <<>>
    /\ cands = <<>>
    /\ scores = <<>>
    /\ final = <<>>
    /\ frames = <<>>
    /\ httpStatus = 0
    /\ body = <<>>
    /\ calls = NoCalls
    /\ served = NoneServed
    /\ finals = NoneFinal
    /\ FanIdle
    /\ cacheMu = [w |-> FALSE, r |-> 0]
    /\ procs = [c \in Callers |-> IdleCall]
    /\ writes = <<>>
    /\ ScanIdle
    /\ DlIdle

restVars == <<backend, pc, handler, req, prompt, mode, key, cands, scores, final,
              frames, httpStatus, body, calls, served, finals, fanVars,
              scanVars, dlVars>>

\* Mutant: a reader does not wait for the writer
canRLockAlways(mu) == TRUE

\* sync.RWMutex: readers share the lock, a writer has it alone
canRLock(mu) == ~mu.w
canLock(mu)  == ~mu.w /\ mu.r = 0

\* cacheGet(key): cacheMu.RLock()
GetRLock(c, k) ==
    /\ procs[c].pc = "idle"
    /\ canRLock(cacheMu)
    /\ cacheMu' = [cacheMu EXCEPT !.r = @ + 1]
    /\ procs' = [procs EXCEPT ![c] = [IdleCall EXCEPT !.pc = "read", !.op = "get", !.key = k]]
    /\ UNCHANGED <<cacheMap, now, writes, restVars>>

\* it, ok := cacheMap[key]
GetRead(c) ==
    /\ procs[c].pc = "read"
    /\ LET k  == procs[c].key
           ok == k \in DOMAIN cacheMap
       IN  procs' = [procs EXCEPT ![c].it = IF ok THEN cacheMap[k] ELSE ZeroItem,
                                  ![c].ok = ok,
                                  ![c].pc = "runlock"]
    /\ UNCHANGED <<cacheMap, now, cacheMu, writes, restVars>>

\* Mutant: a lookup that finds an expired entry removes it
GetRUnlockEvicts(c) ==
    /\ procs[c].pc = "runlock"
    /\ cacheMu' = [cacheMu EXCEPT !.r = @ - 1]
    /\ procs' = [procs EXCEPT
                    ![c].ret = IF ~procs[c].ok \/ now > procs[c].it.exp
                               THEN [val |-> ZeroResponse, ok |-> FALSE]
                               ELSE [val |-> procs[c].it.val, ok |-> TRUE],
                    ![c].pc = "done"]
    /\ cacheMap' = IF procs[c].ok /\ now > procs[c].it.exp
                   THEN [x \in DOMAIN cacheMap \ {procs[c].key} |-> cacheMap[x]]
                   ELSE cacheMap
    /\ UNCHANGED <<now, writes, restVars>>

\* cacheMu.RUnlock(), then the expiry test on the copy, and return
GetRUnlock(c) ==
    /\ procs[c].pc = "runlock"
    /\ cacheMu' = [cacheMu EXCEPT !.r = @ - 1]
    /\ procs' = [procs EXCEPT
                    ![c].ret = IF ~procs[c].ok \/ now > procs[c].it.exp
                               THEN [val |-> ZeroResponse, ok |-> FALSE]
                               ELSE [val |-> procs[c].it.val, ok |-> TRUE],
                    ![c].pc = "done"]
    /\ UNCHANGED <<cacheMap, now, writes, restVars>>

\* cacheSet(key, val, ttl): cacheMu.Lock(), and the item is built
SetLock(c, k) ==
    /\ procs[c].pc = "idle"
    /\ canLock(cacheMu)
    /\ cacheMu' = [cacheMu EXCEPT !.w = TRUE]
    /\ LET item == cacheItem(ValueOf(c, k), now + cacheTTLFor(ModeOfKey(k)))
       IN  /\ procs' = [procs EXCEPT ![c] =
                          [IdleCall EXCEPT !.pc = "storeVal", !.op = "set", !.key = k,
                                           !.item = item]]
           /\ writes' = Append(writes, [caller |-> c, key |-> k, item |-> item])
    /\ UNCHANGED <<cacheMap, now, restVars>>

\* cacheMap[key] = item, first half: the val field
SetStoreVal(c) ==
    /\ procs[c].pc = "storeVal"
    /\ LET k   == procs[c].key
           old == IF k \in DOMAIN cacheMap THEN cacheMap[k] ELSE ZeroItem
       IN  cacheMap' = [x \in DOMAIN cacheMap \cup {k} |->
                           IF x = k THEN cacheItem(procs[c].item.val, old.exp)
                           ELSE cacheMap[x]]
    /\ procs' = [procs EXCEPT ![c].pc = "storeExp"]
    /\ UNCHANGED <<now, cacheMu, writes, restVars>>

\* cacheMap[key] = item, second half: the exp field
SetStoreExp(c) ==
    /\ procs[c].pc = "storeExp"
    /\ cacheMap' = [cacheMap EXCEPT ![procs[c].key].exp = procs[c].item.exp]
    /\ procs' = [procs EXCEPT ![c].pc = "unlock"]
    /\ UNCHANGED <<now, cacheMu, writes, restVars>>

\* cacheMu.Unlock()
SetUnlock(c) ==
    /\ procs[c].pc = "unlock"
    /\ cacheMu' = [cacheMu EXCEPT !.w = FALSE]
    /\ procs' = [procs EXCEPT ![c].pc = "done"]
    /\ UNCHANGED <<cacheMap, now, writes, restVars>>

\* The clock advances while calls are under way
CacheTick ==
    /\ \E c \in Callers : procs[c].pc # "done"
    /\ now + TTLFast <= MaxTime
    /\ now' = now + TTLFast
    /\ UNCHANGED <<cacheMap, cacheMu, procs, writes, restVars>>

CacheNext ==
    \/ \E c \in Callers, k \in CacheKeys : GetRLock(c, k)
    \/ \E c \in Callers : GetRead(c)
    \/ \E c \in Callers : GetRUnlock(c)
    \/ \E c \in Callers, k \in CacheKeys : SetLock(c, k)
    \/ \E c \in Callers : SetStoreVal(c)
    \/ \E c \in Callers : SetStoreExp(c)
    \/ \E c \in Callers : SetUnlock(c)
    \/ CacheTick

CacheSpec == CacheInit /\ [][CacheNext]_vars

(***************************************************************************)
(* The selection, judge and synthesis stages on a wider choice of          *)
(* candidate lists and judge outputs: the handlers are taken right after   *)
(* a fan-out that returned the list.                                       *)
(***************************************************************************)
MaxNL == 4

\* The answer of the i-th provider with n line breaks
NLText(i, n) ==
    LET c == <<"a", "b", "c">>[i]
    IN  Concat(<<Str(<<c>>), Rep("\n", n), Str(<<c>>)>>)

\* Latency-sorted lists of one to three candidates
RankCands ==
    UNION {{[i \in 1..n |-> Candidate(ProvidersQuality[i], NLText(i, f[i]), i)] :
                f \in [1..n -> 0..MaxNL]} : n \in 1..3}

JudgeOutput(arr) == [err |-> FALSE, json |-> TRUE, arr |-> arr]

RankJudgeReplies ==
    {[err |-> TRUE,  json |-> FALSE, arr |-> <<>>],
     [err |-> FALSE, json |-> FALSE, arr |-> <<>>],
     JudgeOutput(<<>>),
     JudgeOutput(<<Entry(7, 9), Entry(-1, 2)>>),
     JudgeOutput(<<Entry(0, 3), Entry(1, 9), Entry(2, 5)>>),
     JudgeOutput(<<Entry(0, 5), Entry(1, 5)>>),
     JudgeOutput(<<Entry(1, 5), Entry(2, 9), Entry(0, 5)>>),
     JudgeOutput(<<Entry(0, 9), Entry(0, 8)>>),
     JudgeOutput(<<Entry(3, 10), Entry(1, 4), Entry(-1, 7)>>),
     JudgeOutput(<<Entry(0, 11), Entry(1, -1)>>)}

RankInit ==
    /\ cacheMap = EmptyMap
    /\ now = 0
    /\ backend \in [gen   : {Gen(gFail, gFail, gFail)},
                    judge : RankJudgeReplies,
                    synth : {Synth(FALSE, <<Chunk(Str(<<"m">>), FALSE),
                                            Chunk(Str(<<"n">>), TRUE)>>, FALSE, 0)}]
    /\ pc = "select"
    /\ handler \in Handlers
    /\ mode \in Modes
    /\ req = [Method |-> "POST", Parses |-> TRUE, Prompt |-> P, Mode |-> mode]
    /\ prompt = P
    /\ key = cacheKey(P, mode)
    /\ cands \in {cs \in RankCands : Len(cs) <= Len(providersFor(mode))}
    /\ scores = <<>>
    /\ final = <<>>
    /\ frames = IF handler = "stream" THEN <<Status("running models...")>> ELSE <<>>
    /\ httpStatus = 0
    /\ body = <<>>
    /\ calls = [NoCalls EXCEPT !.get = 1, !.gen = Len(providersFor(mode))]
    /\ served = NoneServed
    /\ finals = NoneFinal
    /\ FanIdle
    /\ LockIdle
    /\ ScanIdle
    /\ DlIdle

RankNext ==
    \/ SelectSync
    \/ SelectStream
    \/ JudgeStep
    \/ SynthSync
    \/ SynthStream
    \/ Store
    \/ Reply

RankSpec == RankInit /\ [][RankNext]_vars

(***************************************************************************)
(* The handlers from the selection policy on, with answers whose length    *)
(* is at the synthesis limit and with a client that stops reading while    *)
(* the merged text is streamed                                             *)
(***************************************************************************)
\* An answer of n characters with a line break in it
LongText(n) == Cat(Str(<<"l", "\n">>), Rep("l", n - 2))

\* A short answer next to one of 499, 500 or 501 characters, in either
\* latency order: far enough apart in length for fast mode to call the judge
LimitCands ==
    UNION {{<<Candidate("llama3.2", TextA, 1), Candidate("qwen2.5", LongText(n), 2)>>,
            <<Candidate("qwen2.5", LongText(n), 1), Candidate("llama3.2", TextA, 2)>>}
              : n \in {SynthLimit - 1, SynthLimit, SynthLimit + 1}}

LimitJudgeReplies ==
    {[err |-> TRUE, json |-> FALSE, arr |-> <<>>],
     JudgeOutput(<<Entry(0, 8), Entry(1, 2)>>),
     JudgeOutput(<<Entry(0, 3), Entry(1, 9)>>)}

LimitSynthReplies ==
    {Synth(TRUE, <<>>, FALSE, 0),
     Synth(FALSE, <<Chunk(Str(<<" ">>), TRUE)>>, FALSE, 0),
     Synth(FALSE, <<Chunk(Str(<<"m">>), FALSE), Chunk(Str(<<"n">>), TRUE)>>, FALSE, 0),
     \* writing the first, the second delta frame fails
     Synth(FALSE, <<Chunk(Str(<<"m">>), FALSE), Chunk(Str(<<"n">>), TRUE)>>, FALSE, 1),
     Synth(FALSE, <<Chunk(Str(<<"m">>), FALSE), Chunk(<<>>, FALSE), BlankLine,
                    Chunk(Str(<<"n">>), FALSE), Chunk(Str(<<"o">>), TRUE)>>, FALSE, 2),
     \* the write that would fail is never made
     Synth(FALSE, <<Chunk(Str(<<"m">>), TRUE), Chunk(Str(<<"n">>), TRUE)>>, FALSE, 2)}

LimitInit ==
    /\ cacheMap = EmptyMap
    /\ now = 0
    /\ backend \in [gen   : {Gen(gFail, gFail, gFail)},
                    judge : LimitJudgeReplies,
                    synth : LimitSynthReplies]
    /\ pc = "select"
    /\ handler \in Handlers
    /\ mode \in Modes
    /\ req = [Method |-> "POST", Parses |-> TRUE, Prompt |-> P, Mode |-> mode]
    /\ prompt = P
    /\ key = cacheKey(P, mode)
    /\ cands \in LimitCands
    /\ scores = <<>>
    /\ final = <<>>
    /\ frames = IF handler = "stream" THEN <<Status("running models...")>> ELSE <<>>
    /\ httpStatus = 0
    /\ body = <<>>
    /\ calls = [NoCalls EXCEPT !.get = 1, !.gen = Len(providersFor(mode))]
    /\ served = NoneServed
    /\ finals = NoneFinal
    /\ FanIdle
    /\ LockIdle
    /\ ScanIdle
    /\ DlIdle

LimitSpec == LimitInit /\ [][RankNext]_vars

(***************************************************************************)
(* ollamaGenerateStream line by line                                       *)
(***************************************************************************)
\* One streaming call to the backend, followed scanner line by scanner
\* line: backend.synth is the reply it meets.
MaxLines == 3

StreamLines ==
    {Chunk(Str(<<"m">>), FALSE), Chunk(<<>>, FALSE),
     Chunk(Str(<<"n", " ">>), TRUE), Chunk(<<>>, TRUE), BlankLine, BadLine}

LineSeqs == UNION {[1..n -> StreamLines] : n \in 0..MaxLines}

StreamReplies ==
    {Synth(TRUE, <<>>, FALSE, 0)}
    \cup {Synth(FALSE, ls, se, sf) : ls \in LineSeqs, se \in BOOLEAN, sf \in 0..2}

StreamInit ==
    /\ cacheMap = EmptyMap
    /\ now = 0
    /\ backend \in [gen   : {Gen(gA(1), gB(2), gFail)},
                    judge : {[err |-> TRUE, json |-> FALSE, arr |-> <<>>]},
                    synth : StreamReplies]
    /\ pc = "idle"
    /\ handler = "stream"
    /\ req = ZeroRequest
    /\ prompt = P
    /\ mode = QUALITY
    /\ key = <<>>
    /\ cands = <<>>
    /\ scores = <<>>
    /\ final = <<>>
    /\ frames = <<>>
    /\ httpStatus = 0
    /\ body = <<>>
    /\ calls = NoCalls
    /\ served = NoneServed
    /\ finals = NoneFinal
    /\ FanIdle
    /\ LockIdle
    /\ ScanIdle
    /\ DlIdle

\* Mutant: an empty fragment is forwarded too
forwardsAll(chunk) == TRUE

\* if chunk.Response != ""
forwards(chunk) == chunk.Response # <<>>

\* return text, err
returns(text, err) ==
    /\ spc' = "returned"
    /\ outcomes' = Append(outcomes, [text |-> text, err |-> err])

\* The request is sent; a transport error or a non-2xx status ends the call
StreamBegin ==
    /\ spc = "idle"
    /\ IF backend.synth.err
       THEN returns(<<>>, TRUE)
       ELSE spc' = "scanning" /\ UNCHANGED outcomes
    /\ UNCHANGED <<sline, sfull, sink>>
    /\ UNCHANGED <<handlerVars, backend, mode, cands, fanVars, lockVars, dlVars>>

\* One turn of the loop: sc.Scan() delivers the next line
ScanLine ==
    /\ spc = "scanning"
    /\ sline < Len(backend.synth.lines)
    /\ sline' = sline + 1
    /\ LET chunk == backend.synth.lines[sline + 1] IN
       IF chunk.kind = "blank"
       THEN UNCHANGED <<spc, sfull, sink, outcomes>>
       ELSE IF chunk.kind = "bad"
       THEN returns(<<>>, TRUE) /\ UNCHANGED <<sfull, sink>>
       ELSE /\ sfull' = IF forwards(chunk) THEN Cat(sfull, chunk.Response) ELSE sfull
            /\ sink' = IF forwards(chunk) THEN Append(sink, chunk.Response) ELSE sink
            /\ IF forwards(chunk) /\ Len(sink') = backend.synth.sinkFailAt
               THEN returns(sfull', TRUE)
               ELSE IF chunk.Done
               THEN returns(TrimSpace(sfull'), FALSE)
               ELSE UNCHANGED <<spc, outcomes>>
    /\ UNCHANGED <<handlerVars, backend, mode, cands, fanVars, lockVars, dlVars>>

\* sc.Scan() returns false: the body ended, or the scanner met an error
ScanEnd ==
    /\ spc = "scanning"
    /\ sline = Len(backend.synth.lines)
    /\ IF backend.synth.scanErr
       THEN returns(sfull, TRUE)
       ELSE returns(TrimSpace(sfull), FALSE)
    /\ UNCHANGED <<sline, sfull, sink>>
    /\ UNCHANGED <<handlerVars, backend, mode, cands, fanVars, lockVars, dlVars>>

StreamNext ==
    \/ StreamBegin
    \/ ScanLine
    \/ ScanEnd

StreamSpec == StreamInit /\ [][StreamNext]_vars

\* The call runs on its own goroutine until it returns: no step of it waits
\* for another process
StreamLive == StreamSpec /\ WF_vars(StreamNext)

(***************************************************************************)
(* The backend calls of one execution under its context: fan-out, judge    *)
(* and synthesis are made with the ctx that context.WithTimeout returned   *)
(* before the fan-out.  A call takes some seconds to be answered; a call   *)
(* not answered when the deadline of its context passes returns an error.  *)
(***************************************************************************)
TimeoutFast    == 45
TimeoutQuality == 120
ClientTimeout  == 180

timeoutFor(m) == IF m = QUALITY THEN TimeoutQuality ELSE TimeoutFast

\* Seconds the backend takes to answer a call
Durations == {10, 50, 130}

DlBackends ==
    {[gen   |-> Gen(gA(1), gB(2), gA(3)),
      judge |-> JudgeOutput(arr),
      synth |-> Synth(FALSE, <<Chunk(Str(<<"m">>), FALSE), Chunk(Str(<<"n">>), TRUE)>>,
                      FALSE, 0)]
        : arr \in {<<Entry(0, 8), Entry(1, 2)>>, <<Entry(0, 3), Entry(1, 9)>>}}

\* The execution has missed the cache and has just created ctx
DlInit ==
    /\ cacheMap = EmptyMap
    /\ now = 0
    /\ backend \in DlBackends
    /\ pc = "fanout"
    /\ handler \in Handlers
    /\ mode \in Modes
    /\ req = [Method |-> "POST", Parses |-> TRUE, Prompt |-> P, Mode |-> mode]
    /\ prompt = P
    /\ key = cacheKey(P, mode)
    /\ cands = <<>>
    /\ scores = <<>>
    /\ final = <<>>
    /\ frames = <<>>
    /\ httpStatus = 0
    /\ body = <<>>
    /\ calls = [NoCalls EXCEPT !.get = 1]
    /\ served = NoneServed
    /\ finals = NoneFinal
    /\ FanIdle
    /\ LockIdle
    /\ ScanIdle
    /\ DlIdle

\* Mutant: every call is given a context of its own, with the full timeout
ctxDeadlineFromCall == elapsed + timeoutFor(mode)

\* ctx, cancel := context.WithTimeout(r.Context(), timeout): the deadline,
\* in seconds after the creation of ctx
ctxDeadline == timeoutFor(mode)

\* The time a call started now may take: what is left of ctx, or the
\* http.Client's Timeout when that is set (not 0) and shorter
callLimit(client) ==
    LET left == ctxDeadline - elapsed
    IN  IF client > 0 /\ client < left THEN client ELSE left

Shorter(a, b) == IF a < b THEN a ELSE b

ctxCall(stage, d, limit) ==
    [stage |-> stage, start |-> elapsed, dur |-> d, deadline |-> elapsed + limit,
     end |-> elapsed + Shorter(d, limit), err |-> d > limit]

\* fanOut(ctx, ...): the calls of all providers start together; the fan-out
\* lasts as long as its slowest call
TimedFanOut(d) ==
    /\ pc = "fanout" /\ timed # "fanout"
    /\ LET ps    == providersFor(mode)
           limit == callLimit(ClientTimeout)
       IN  /\ backend' = [backend EXCEPT !.gen =
                            [p \in DOMAIN backend.gen |->
                                IF p \in ProviderSet(mode) /\ d[p] > limit
                                THEN gFail ELSE backend.gen[p]]]
           /\ elapsed' = elapsed + SetMax({Shorter(d[p], limit) : p \in ProviderSet(mode)})
           /\ ctxCalls' = ctxCalls \o [i \in 1..Len(ps) |-> ctxCall("fanout", d[ps[i]], limit)]
    /\ timed' = "fanout"
    /\ UNCHANGED <<handlerVars, mode, cands, fanVars, lockVars, scanVars>>

\* The merge is attempted at this point of the handler
SynthCallMade ==
    \/ handler = "stream"
    \/ mode = QUALITY
    \/ StrLen(cands[scores[1].Idx + 1].Text) < SynthLimit

\* judgeCandidates(ctx, ...), ollamaGenerate(ctx, ...) and
\* ollamaGenerateStream(ctx, ...), whose client has no timeout of its own
TimedCall(d) ==
    /\ pc \in {"judge", "synth"} /\ timed # pc
    /\ pc = "synth" => SynthCallMade
    /\ LET client == IF pc = "synth" /\ handler = "stream" THEN 0 ELSE ClientTimeout
           limit  == callLimit(client)
       IN  /\ backend' = IF d <= limit THEN backend
                         ELSE IF pc = "judge"
                         THEN [backend EXCEPT !.judge = [err |-> TRUE, json |-> FALSE, arr |-> <<>>]]
                         ELSE [backend EXCEPT !.synth = Synth(TRUE, <<>>, FALSE, 0)]
           /\ elapsed' = elapsed + Shorter(d, limit)
           /\ ctxCalls' = Append(ctxCalls, ctxCall(pc, d, limit))
    /\ timed' = pc
    /\ UNCHANGED <<handlerVars, mode, cands, fanVars, lockVars, scanVars>>

\* The handler goes on once the call it waits for has returned
AfterFanOut     == timed = "fanout" /\ FanOutStep
AfterJudge      == timed = "judge" /\ JudgeStep
AfterSynthSync  ==
    /\ pc = "synth" /\ handler = "sync"
    /\ timed = "synth" \/ ~SynthCallMade
    /\ SynthSync
AfterSynthStream == timed = "synth" /\ SynthStream

DlNext ==
    \/ \E d \in [ProviderSet(mode) -> Durations] : TimedFanOut(d)
    \/ \E d \in Durations : TimedCall(d)
    \/ AfterFanOut
    \/ SelectSync
    \/ SelectStream
    \/ AfterJudge
    \/ AfterSynthSync
    \/ AfterSynthStream
    \/ Store
    \/ Reply

DlSpec == DlInit /\ [][DlNext]_vars

(***************************************************************************)
(* Vocabulary of the properties                                            *)
(***************************************************************************)
Done == pc = "done"

\* The request passes the handler's validation / is malformed input
ValidReq(r)  == r.Method = "POST" /\ r.Parses /\ TrimSpace(r.Prompt) # <<>>
Malformed(r) == r.Method = "POST" /\ (~r.Parses \/ TrimSpace(r.Prompt) = <<>>)

Terminals(w) == {i \in 1..Len(w) : w[i].Type \in {"meta", "error"}}
HasFrame(w, type) == \E i \in 1..Len(w) : w[i].Type = type

IsDelta(f) == f.Type = "delta"
DeltaText(w) ==
    LET ds == SelectSeq(w, IsDelta)
    IN  Concat([i \in 1..Len(ds) |-> ds[i].Text])

EndsInSummary(w) == Len(w) > 0 /\ w[Len(w)].Type = "meta"
Summary(w) == w[Len(w)].Meta[1]

\* The execution answered with a response (not an error), and that response
Succeeded ==
    IF handler = "sync" THEN httpStatus = 200 /\ body # <<>>
    ELSE EndsInSummary(frames)
Out == IF handler = "sync" THEN body[1] ELSE Summary(frames)

\* Fan-out ran and returned nothing
AllBackendsFailed == calls.gen > 0 /\ cands = <<>>

\* Some backend of the request's mode answers with non-blank text
SomeBackendAnswers(r) ==
    LET ps == providersFor(normMode(r.Mode))
    IN  \E i \in 1..Len(ps) :
            ~backend.gen[ps[i]].err /\ TrimSpace(backend.gen[ps[i]].text) # <<>>

\* A step that receives a well-formed request
ReceivesValid == pc \in {"idle", "done"} /\ now' = now /\ ValidReq(req')

C2_DeltasEqualFinal ==
    (Done /\ handler = "stream" /\ EndsInSummary(frames)) =>
        DeltaText(frames) = Summary(frames).Final

(***************************************************************************)
(* C3: for a prompt that is non-empty after trimming, if some backend      *)
(* answers the fan-out with non-blank text, the execution ends with a      *)
(* response whose final is non-empty, in both handlers, and no step of the *)
(* pipeline indexes cands or scores out of range (no panic).               *)
(***************************************************************************)
C3_NonEmptyFinal ==
    /\ (Done /\ ValidReq(req) /\ calls.gen > 0 /\ SomeBackendAnswers(req)) =>
            Succeeded /\ TrimSpace(Out.Final) # <<>>
    /\ (pc \in {"select", "judge", "synth", "store", "reply"}) => Len(cands) > 0
    /\ (pc = "synth") =>
            /\ Len(scores) > 0
            /\ \A i \in 1..Len(scores) : scores[i].Idx >= 0 /\ scores[i].Idx < Len(cands)

C3_Witness ==
    /\ Done /\ ValidReq(req) /\ calls.gen > 0 /\ SomeBackendAnswers(req)
    /\ calls.judge = 1 /\ calls.synth = 1 /\ final = cands[scores[1].Idx + 1].Text

(***************************************************************************)
(* C4: a well-formed request received while the response last sent for its *)
(* (prompt, mode) is younger than the mode's TTL is answered at once with  *)
(* no backend call, with cached = true and with final, candidates and mode *)
(* of that response.                                                       *)
(***************************************************************************)
Fresh(p, m) ==
    served[<<p, m>>] # <<>> /\ now < served[<<p, m>>][1].at + cacheTTLFor(m)

C4_RepeatWithinTTLIsHit ==
    [][ LET p == TrimSpace(req'.Prompt)
            m == normMode(req'.Mode)
        IN  (ReceivesValid /\ Fresh(p, m)) =>
                /\ pc' = "done"
                /\ calls'.gen = 0 /\ calls'.judge = 0 /\ calls'.synth = 0
                /\ Succeeded'
                /\ Out' = [served[<<p, m>>][1].resp EXCEPT !.Cached = TRUE] ]_vars

C4_Witness ==
    /\ Done /\ ValidReq(req) /\ calls.get = 1 /\ calls.gen = 0
    /\ Succeeded /\ Out.Cached /\ Len(Out.Candidates) >= 2

(***************************************************************************)
(* C5: a response stored for (prompt, fast) is never returned for          *)
(* (prompt, quality) and vice versa: every response served from the cache  *)
(* was stored under the request's own normalised mode, and the two modes   *)
(* of one prompt have different keys.                                      *)
(***************************************************************************)
C5_ModesNeverShareEntry ==
    /\ \A p \in Prompts : cacheKey(p, FAST) # cacheKey(p, QUALITY)
    /\ \A p \in Prompts, m \in Modes :
          cacheKey(p, m) \in DOMAIN cacheMap => cacheMap[cacheKey(p, m)].val.Mode = m
    /\ (Done /\ ValidReq(req) /\ Succeeded /\ calls.gen = 0) =>
          /\ Out.Mode = normMode(req.Mode)
          /\ served[<<TrimSpace(req.Prompt), normMode(req.Mode)>>] # <<>>
          /\ Out.Final = served[<<TrimSpace(req.Prompt), normMode(req.Mode)>>][1].resp.Final

C5_Witness ==
    /\ Done /\ ValidReq(req) /\ Succeeded /\ calls.gen = 0 /\ Out.Cached
    /\ \A m \in Modes : cacheKey(prompt, m) \in DOMAIN cacheMap
    /\ served[<<prompt, FAST>>][1].resp.Final # served[<<prompt, QUALITY>>][1].resp.Final

(***************************************************************************)
(* C6: a lookup of an entry whose expiry instant has passed is a miss:     *)
(* cacheGet returns found = false with the zero response, and the handler  *)
(* goes on to the fan-out instead of serving the entry.                    *)
(***************************************************************************)
C6_ExpiredIsMiss ==
    [][ LET k == cacheKey(TrimSpace(req'.Prompt), normMode(req'.Mode))
        IN  (ReceivesValid /\ k \in DOMAIN cacheMap /\ now > cacheMap[k].exp) =>
                /\ cacheGet(k, now) = [val |-> ZeroResponse, ok |-> FALSE]
                /\ pc' = "fanout"
                /\ frames' = <<>> /\ body' = <<>> ]_vars

C6_Witness ==
    /\ pc = "fanout" /\ key \in DOMAIN cacheMap /\ now > cacheMap[key].exp

(***************************************************************************)
(* C7: when fan-out returns zero candidates the execution ends with the    *)
(* upstream-unavailable error (HTTP 502, or an error frame as the only     *)
(* terminal frame), makes no judge or synthesis call and writes nothing to *)
(* the cache.                                                              *)
(***************************************************************************)
C7_UpstreamError ==
    AllBackendsFailed =>
        /\ Done
        /\ calls.judge = 0 /\ calls.synth = 0 /\ calls.set = 0
        /\ ~Succeeded
        /\ IF handler = "sync"
           THEN httpStatus = 502 /\ body = <<errResp(NoUpstream)>>
           ELSE /\ frames[Len(frames)] = ErrorMsg(NoUpstream)
                /\ ~HasFrame(frames, "meta") /\ ~HasFrame(frames, "delta")

C7_NoCandidatesIsUpstreamError ==
    /\ []C7_UpstreamError
    /\ [][(pc = "fanout" /\ cands' = <<>>) => cacheMap' = cacheMap]_vars

C7_Witness ==
    /\ AllBackendsFailed /\ handler = "stream" /\ DOMAIN cacheMap = {}
    /\ now > 0

(***************************************************************************)
(* C8: a request whose body does not parse or whose prompt is empty after  *)
(* trimming is answered with HTTP 400 at once: no cache lookup, no backend *)
(* call, no cache write, no frame; and 400 is not the status (502) or the  *)
(* frame (error) of the all-backends-failed signal.                        *)
(***************************************************************************)
C8_Rejected ==
    /\ (pc # "idle" /\ Malformed(req)) =>
        /\ Done
        /\ httpStatus = 400
        /\ body \in {<<errResp("bad json")>>, <<errResp("prompt required")>>}
        /\ calls = NoCalls
        /\ frames = <<>>
    /\ AllBackendsFailed => httpStatus # 400

C8_MalformedRejectedFirst ==
    /\ []C8_Rejected
    /\ [][Malformed(req') => cacheMap' = cacheMap]_vars

C8_Witness ==
    /\ Done /\ Malformed(req) /\ req.Parses /\ handler = "stream"
    /\ DOMAIN cacheMap # {}

JudgeFailed == calls.judge = 1 /\ \A res \in judgeCandidates(backend.judge, cands) : res.err
SynthFailed ==
    /\ calls.synth = 1
    /\ LET r == ollamaGenerateStream(backend.synth)
       IN  r.err \/ TrimSpace(r.text) = <<>>

C10_SyncFinalEqualsStreamFinal ==
    \A m \in Modes :
        (/\ finals[<<"sync", m>>] # <<>>
         /\ finals[<<"stream", m>>] # <<>>
         /\ finals[<<"sync", m>>][1].Candidates = finals[<<"stream", m>>][1].Candidates)
        => finals[<<"sync", m>>][1].Final = finals[<<"stream", m>>][1].Final

(***************************************************************************)
(* Vocabulary of the fan-out properties                                    *)
(***************************************************************************)
Returned == fpc = "returned"

\* The call of worker p has returned / has returned non-blank text, no error
Completed(p) == workers[p].st = "done"
Answered(p)  ==
    Completed(p) /\ ~workers[p].res.err /\ TrimSpace(workers[p].res.text) # <<>>

\* The backend of p never answers with an error (it answers, or hangs)
BackendSound(p) == ~backend.gen[p].err

(***************************************************************************)
(* C11: in fanOut a failed backend call (error, non-2xx, timeout, blank    *)
(* text) excludes that backend's candidate alone: the returned list holds  *)
(* exactly one candidate, with the text returned, for every call that      *)
(* returned non-blank text without error; and a call ends in an error only *)
(* when its own backend failed or the shared deadline passed, never        *)
(* because another call failed.                                            *)
(***************************************************************************)
C11_FailureExcludesOnlyItsCandidate ==
    /\ Returned =>
        /\ Len(cands) = Cardinality({p \in DOMAIN workers : Answered(p)})
        /\ \A p \in DOMAIN workers : Answered(p) =>
              \E i \in 1..Len(cands) :
                  cands[i] = Candidate(p, workers[p].res.text, backend.gen[p].lat)
        /\ cands \in fanOut(providersFor(mode),
                            [p \in DOMAIN backend.gen |->
                                IF p \in DOMAIN workers /\ workers[p].res.err
                                THEN gFail ELSE backend.gen[p]])
    /\ \A p \in DOMAIN workers :
          (Completed(p) /\ workers[p].res.err) => (~BackendSound(p) \/ ctxDone)

C11_Witness ==
    /\ Returned /\ ~ctxDone /\ Len(cands) = 2
    /\ \E p \in DOMAIN workers : Completed(p) /\ workers[p].res.err

(***************************************************************************)
(* C12: fanOut returns only when every call has returned, and it does      *)
(* return once every call has completed or the shared deadline has passed: *)
(* it does not stay waiting for a call in flight after the deadline.       *)
(***************************************************************************)
C12_ReturnsAtCompletionOrDeadline ==
    /\ [](Returned => \A p \in DOMAIN workers : Completed(p))
    /\ (fpc = "collect" /\ ctxDone) ~> Returned
    /\ (fpc = "collect" /\ \A p \in DOMAIN workers : Completed(p)) ~> Returned

C12_Witness ==
    /\ Returned /\ ctxDone
    /\ \E p \in DOMAIN workers : workers[p].res.err /\ BackendSound(p)
    /\ \E p \in DOMAIN workers : Answered(p)

(***************************************************************************)
(* C13: the list fanOut returns is sorted ascending by latency, whatever   *)
(* the order in which the calls completed.                                 *)
(***************************************************************************)
C13_SortedByLatency ==
    Returned =>
        \A i \in 1..(Len(cands) - 1) : cands[i].LatencyMs <= cands[i + 1].LatencyMs

C13_Witness ==
    /\ Returned /\ Len(cands) = 3
    /\ arrived[1].LatencyMs > arrived[2].LatencyMs
    /\ arrived[2].LatencyMs < arrived[3].LatencyMs


(***************************************************************************)
(* C14: a judge failure (call error, non-JSON output, no entry with a      *)
(* valid index) is absorbed: the judge is called once and not again, no    *)
(* synthesis follows, and the execution ends with a response (no error     *)
(* status, no error frame) whose final is the text of fastPick(cands); and *)
(* that response is the one stored in the cache.                           *)
(***************************************************************************)
JudgeReplyUnusable ==
    \/ backend.judge.err
    \/ ~backend.judge.json
    \/ \A i \in 1..Len(backend.judge.arr) :
          backend.judge.arr[i].Idx < 0 \/ backend.judge.arr[i].Idx >= Len(cands)

C14_JudgeFailureAbsorbed ==
    /\ calls.judge <= 1
    /\ (Done /\ calls.judge = 1 /\ JudgeReplyUnusable) =>
        /\ calls.synth = 0 /\ calls.set = 1
        /\ Succeeded
        /\ ~HasFrame(frames, "error")
        /\ Out = AnswerResponse(fastPick(cands).Text, cands, FALSE, mode)
        /\ key \in DOMAIN cacheMap /\ cacheMap[key].val = Out

C14_Witness ==
    /\ Done /\ calls.judge = 1 /\ JudgeReplyUnusable
    /\ backend.judge.json /\ handler = "stream"
    /\ Out.Final # cands[1].Text

(***************************************************************************)
(* C15: a synthesis failure (call error, or merged text empty after        *)
(* trimming) is absorbed: the execution ends with a response (no error     *)
(* status, no error frame) whose final is the text of the top-ranked       *)
(* candidate cands[scores[0].Idx] as it is, and no second synthesis call   *)
(* is made.                                                                *)
(***************************************************************************)
SynthCallFailed ==
    IF handler = "sync"
    THEN LET r == ollamaGenerate(backend.synth)
         IN  r.err \/ TrimSpace(r.text) = <<>>
    ELSE LET r == ollamaGenerateStream(backend.synth)
         IN  r.err \/ TrimSpace(r.text) = <<>>

C15_SynthFailureAbsorbed ==
    /\ calls.synth <= 1
    /\ (Done /\ calls.synth = 1 /\ SynthCallFailed) =>
        /\ Succeeded
        /\ ~HasFrame(frames, "error")
        /\ Out = AnswerResponse(cands[scores[1].Idx + 1].Text, cands, FALSE, mode)

C15_Witness ==
    /\ Done /\ calls.synth = 1 /\ SynthCallFailed /\ handler = "stream"
    /\ \E i \in 1..Len(frames) : frames[i] = Delta(Str(<<"m">>))
    /\ Out.Final = cands[scores[1].Idx + 1].Text
    /\ scores[1].Idx = 1

(***************************************************************************)
(* C16: in fast mode, when fan-out yields exactly one candidate, neither   *)
(* the judge nor the synthesizer is called and the candidate's text is the *)
(* final, in the synchronous and in the streaming handler.                 *)
(***************************************************************************)
C16_FastSingleCandidateIsReturned ==
    (Done /\ mode = FAST /\ calls.gen > 0 /\ Len(cands) = 1) =>
        /\ calls.judge = 0 /\ calls.synth = 0
        /\ Succeeded /\ Out.Final = cands[1].Text

(***************************************************************************)
(* C17: in fast mode with two candidates or more, the judge is not called  *)
(* when the lengths of the two fastest candidates' texts differ by less    *)
(* than 350, and is called exactly once when they differ by 350 or more.   *)
(***************************************************************************)
LengthGap ==
    LET a == StrLen(cands[1].Text)
        b == StrLen(cands[2].Text)
    IN  IF a >= b THEN a - b ELSE b - a

C17_JudgeCalledIffLengthsFarApart ==
    (Done /\ mode = FAST /\ calls.gen > 0 /\ Len(cands) >= 2) =>
        calls.judge = IF LengthGap < 350 THEN 0 ELSE 1

C17_Witness ==
    /\ Done /\ mode = FAST /\ calls.gen > 0 /\ Len(cands) >= 2
    /\ LengthGap = 350 /\ calls.judge = 1 /\ handler = "stream"

(***************************************************************************)
(* C18: in quality mode every execution that is no cache hit and has one   *)
(* candidate or more calls the judge and, when judging succeeds, the       *)
(* synthesizer, whatever the number of candidates and their lengths.       *)
(***************************************************************************)
C18_QualityAlwaysJudges ==
    (Done /\ mode = QUALITY /\ calls.gen > 0 /\ Len(cands) >= 1) =>
        /\ calls.judge = 1
        /\ ~JudgeReplyUnusable => calls.synth = 1

(***************************************************************************)
(* C20: the mode the pipeline uses is fast or quality: quality exactly     *)
(* when the request's mode, trimmed and lower-cased, is "quality", fast    *)
(* for an absent, empty or unrecognized value; the cache key, the provider *)
(* set, the stored entry and the response's mode field use that mode.      *)
(***************************************************************************)
C20_ModeIsNormalised ==
    (pc # "idle" /\ ValidReq(req)) =>
        /\ mode \in Modes
        /\ mode = QUALITY <=> ToLower(TrimSpace(req.Mode)) = QUALITY
        /\ key = cacheKey(prompt, mode)
        /\ calls.gen \in {0, Len(providersFor(mode))}
        /\ (Done /\ Succeeded) => Out.Mode = mode
        /\ calls.set = 1 => (key \in DOMAIN cacheMap /\ cacheMap[key].val.Mode = mode)

C20_Witness ==
    /\ Done /\ ValidReq(req) /\ Succeeded /\ calls.set = 1
    /\ req.Mode = Str(<<"q", "u", "a", "l", "i", "t", "y", "!">>) /\ Out.Mode = FAST
    /\ cacheKey(prompt, QUALITY) \in DOMAIN cacheMap

(***************************************************************************)
(* C19: under any interleaving of concurrent cacheGet and cacheSet calls   *)
(* the cache stays consistent: no reader is inside the lock together with  *)
(* a writer; every entry a cacheGet reads, and every value it returns, is  *)
(* the whole item of some earlier cacheSet for that key, or it is a miss   *)
(* with the zero response; and whenever no writer holds the lock, each     *)
(* entry is the value and expiry of the cacheSet that took the write lock  *)
(* last for its key.                                                       *)
(***************************************************************************)
WritesTo(k) == {i \in 1..Len(writes) : writes[i].key = k}

C19_ConcurrentCacheIsConsistent ==
    /\ ~(cacheMu.w /\ cacheMu.r > 0)
    /\ Cardinality({c \in DOMAIN procs : procs[c].pc \in {"storeVal", "storeExp", "unlock"}})
          = IF cacheMu.w THEN 1 ELSE 0
    /\ \A c \in DOMAIN procs :
          /\ (procs[c].op = "get" /\ procs[c].ok) =>
                \E i \in WritesTo(procs[c].key) : writes[i].item = procs[c].it
          /\ (procs[c].op = "get" /\ procs[c].pc = "done") =>
                IF procs[c].ret.ok
                THEN procs[c].ok /\ procs[c].ret.val = procs[c].it.val
                ELSE procs[c].ret.val = ZeroResponse
    /\ ~cacheMu.w =>
          /\ DOMAIN cacheMap = {writes[i].key : i \in 1..Len(writes)}
          /\ \A k \in DOMAIN cacheMap : cacheMap[k] = writes[SetMax(WritesTo(k))].item

C19_Witness ==
    /\ Len(writes) = 2 /\ writes[1].key = writes[2].key
    /\ writes[1].item.exp < writes[2].item.exp
    /\ ~cacheMu.w
    /\ \E c \in DOMAIN procs :
          /\ procs[c].op = "get" /\ procs[c].pc = "done"
          /\ procs[c].ret.ok /\ procs[c].ret.val = writes[1].item.val
          /\ cacheMap[procs[c].key] = writes[2].item

(***************************************************************************)
(* Vocabulary of the ranking properties                                    *)
(***************************************************************************)
\* judgeCandidates succeeded, and scores holds its result
Judged == scores # <<>>

\* The entries of the judge output whose index names a candidate, in the
\* order of the output
ValidEntry(e) == e.Idx >= 0 /\ e.Idx < Len(cands)
ValidOutput   == SelectSeq(backend.judge.arr, ValidEntry)

\* The entries of a ranking with a given score, in their order
WithScore(rs, sc) == LET Has(e) == e.Score = sc IN SelectSeq(rs, Has)

\* How often an entry occurs in a ranking
Occurrences(rs, x) == LET Is(e) == e = x IN Len(SelectSeq(rs, Is))

(***************************************************************************)
(* C21: among entries of equal score the ranking returned by               *)
(* judgeCandidates keeps the order of the validated judge output.          *)
(***************************************************************************)
C21_EqualScoresKeepOutputOrder ==
    Judged =>
        \A i \in 1..Len(scores) :
            WithScore(scores, scores[i].Score) = WithScore(ValidOutput, scores[i].Score)

(***************************************************************************)
(* C22: the ranking returned by judgeCandidates is sorted descending by    *)
(* score; the scores [3, 9, 5] for the candidates [A, B, C] give the order *)
(* B, C, A.                                                                *)
(***************************************************************************)
C22_RankedDescending ==
    Judged =>
        /\ \A i \in 1..(Len(scores) - 1) : scores[i].Score >= scores[i + 1].Score
        /\ (Len(cands) = 3
              /\ backend.judge.arr = <<Entry(0, 3), Entry(1, 9), Entry(2, 5)>>)
            => scores = <<Entry(1, 9), Entry(2, 5), Entry(0, 3)>>

C22_Witness ==
    /\ Judged /\ Len(cands) = 3
    /\ backend.judge.arr = <<Entry(0, 3), Entry(1, 9), Entry(2, 5)>>
    /\ pc = "done" /\ handler = "sync"

(***************************************************************************)
(* C23: no candidate index occurs twice in the ranking returned by         *)
(* judgeCandidates, so the two candidates handed to synthesis, when there  *)
(* are two ranks, are different candidates.                                *)
(***************************************************************************)
C23_NoIndexTwice ==
    Judged =>
        /\ \A i, j \in 1..Len(scores) : scores[i].Idx = scores[j].Idx => i = j
        /\ Len(scores) > 1 => topOf(cands, scores)[1] # topOf(cands, scores)[2]

(***************************************************************************)
(* C24: every entry of a successful judgeCandidates result has an index    *)
(* of the candidate list, 0 <= Idx < len(cands), so cands[scores[0].Idx]   *)
(* and cands[scores[1].Idx] exist, whatever the judge wrote.               *)
(***************************************************************************)
C24_IndicesInRange ==
    Judged =>
        /\ \A i \in 1..Len(scores) : scores[i].Idx \in 0..(Len(cands) - 1)
        /\ scores[1].Idx + 1 \in DOMAIN cands
        /\ Len(scores) > 1 => scores[2].Idx + 1 \in DOMAIN cands
        /\ Len(topOf(cands, scores)) = IF Len(scores) > 1 THEN 2 ELSE 1

C24_Witness ==
    /\ Judged /\ pc = "synth" /\ Len(cands) = 2
    /\ backend.judge.arr = <<Entry(3, 10), Entry(1, 4), Entry(-1, 7)>>
    /\ scores = <<Entry(1, 4)>>

(***************************************************************************)
(* C25: judgeCandidates drops the entries whose index names no candidate   *)
(* and keeps all the others; it fails exactly when the call errors, the    *)
(* output is no JSON array, or no valid entry remains, and otherwise       *)
(* succeeds with a non-empty ranking.                                      *)
(***************************************************************************)
C25_InvalidEntriesDropped ==
    calls.judge = 1 =>
        /\ ~Judged <=> JudgeReplyUnusable
        /\ Judged =>
            /\ Len(scores) = Len(ValidOutput)
            /\ \A i \in 1..Len(scores) :
                  Occurrences(scores, scores[i]) = Occurrences(ValidOutput, scores[i])

C25_Witness ==
    /\ calls.judge = 1 /\ Judged /\ Len(cands) = 3
    /\ Len(backend.judge.arr) = 3 /\ Len(scores) = 1

(***************************************************************************)
(* C26: every entry of a successful judgeCandidates result has a score     *)
(* from 0 to 10, whatever integers the judge wrote.                        *)
(***************************************************************************)
C26_ScoresInRange ==
    Judged => \A i \in 1..Len(scores) : scores[i].Score \in 0..10

(***************************************************************************)
(* C27: fastPick scans the latency-sorted list from the fastest candidate  *)
(* and replaces the current best only by a candidate with more than one    *)
(* newline more than it; without such a candidate the fastest one is       *)
(* returned; the result is a candidate of the list.                        *)
(***************************************************************************)
NL(i) == Count(cands[i].Text, "\n")

\* The heuristic pick was used: no ranking, and final is set
Picked == pc \in {"store", "reply", "done"} /\ scores = <<>>

C27_FastPickNeedsTwoMoreNewlines ==
    Picked =>
        LET best[k \in 1..Len(cands)] ==
                IF k = 1 THEN 1
                ELSE IF NL(k) > NL(best[k - 1]) + 1 THEN k ELSE best[k - 1]
        IN  /\ final = cands[best[Len(cands)]].Text
            /\ \E i \in 1..Len(cands) : final = cands[i].Text
            /\ (\A i \in 1..Len(cands) : NL(i) <= NL(1) + 1) => final = cands[1].Text

C27_Witness ==
    /\ Picked /\ Len(cands) = 3 /\ calls.judge = 1
    /\ NL(1) = 0 /\ NL(2) = 2 /\ NL(3) = 3
    /\ final = cands[2].Text

(***************************************************************************)
(* C28: the candidate order fanOut returns is determined by the texts and  *)
(* the measured latencies: every run in which the backends return the same *)
(* texts with the same latencies yields the same list, whatever the order  *)
(* in which the calls complete, equal latencies included.                  *)
(***************************************************************************)
\* The replies as the calls returned them: a cancelled call is a failed one
ReturnedGen ==
    [p \in DOMAIN backend.gen |->
        IF p \in DOMAIN workers /\ workers[p].res.err THEN gFail ELSE backend.gen[p]]

C28_FanOutOrderIsDetermined ==
    Returned => \A cs \in fanOut(providersFor(mode), ReturnedGen) : cs = cands

(***************************************************************************)
(* C29: a result that a backend call delivers after the shared deadline    *)
(* has passed is discarded: it is not in the list fanOut returns.          *)
(***************************************************************************)
C29_LateResultDiscarded ==
    Returned =>
        \A p \in DOMAIN workers :
            workers[p].late => \A i \in 1..Len(cands) : cands[i].Provider # p

\* The non-empty fragments among the lines delivered, in the order of arrival
RECURSIVE ArrivedFragments(_)
ArrivedFragments(lines) ==
    IF lines = <<>> THEN <<>>
    ELSE LET ln == Head(lines) IN
         IF ln.kind = "chunk" /\ ln.Response # <<>>
         THEN <<ln.Response>> \o ArrivedFragments(Tail(lines))
         ELSE ArrivedFragments(Tail(lines))

StreamReturned == Len(outcomes) > 0

\* C30: in every call of ollamaGenerateStream each fragment passed to the
\* sink is non-empty and the sink receives the fragments in the order they
\* arrived; the call ends with exactly one outcome (a success or a failure);
\* once it has its outcome no further fragment is forwarded and no second
\* outcome follows, so a success is never followed by a failure.
C30_FragmentsThenOneOutcome ==
    /\ [](/\ \A i \in 1..Len(sink) : sink[i] # <<>>
          /\ sink = ArrivedFragments(SubSeq(backend.synth.lines, 1, sline))
          /\ Len(outcomes) <= 1)
    /\ [][StreamReturned => sink' = sink /\ outcomes' = outcomes]_vars
    /\ <>StreamReturned

\* A call that forwarded fragments, met the final chunk and returned with
\* success while the backend had sent more text after it
C30_Witness ==
    /\ StreamReturned
    /\ ~outcomes[1].err
    /\ Len(sink) >= 2
    /\ sline < Len(backend.synth.lines)
    /\ ArrivedFragments(backend.synth.lines) # sink

(***************************************************************************)
(* C32: every execution that misses the cache and ends with a response     *)
(* calls cacheSet exactly once, stores exactly the response it returns,    *)
(* and has stored it before the synchronous payload or the summary frame   *)
(* is written.                                                             *)
(***************************************************************************)
MissSucceeded == Done /\ Succeeded /\ calls.gen > 0

C32_StoredOnceBeforeReply ==
    /\ [](MissSucceeded =>
            /\ calls.set = 1
            /\ ~Out.Cached
            /\ key \in DOMAIN cacheMap /\ cacheMap[key].val = Out)
    /\ [][(~Done /\ MissSucceeded') =>
            /\ calls.set = 1 /\ calls'.set = 1
            /\ key \in DOMAIN cacheMap /\ cacheMap[key].val = Out'
            /\ cacheMap' = cacheMap]_vars

C32_Witness ==
    /\ MissSucceeded
    /\ handler = "stream"
    /\ calls.synth = 1
    /\ cacheMap[key].val.Final # cands[1].Text

(***************************************************************************)
(* C33: a stored AnswerResponse is never changed: the entry of a key keeps *)
(* its value (final, candidates and their order, cached flag, mode) until  *)
(* a later cacheSet of the same key overwrites it.  Serving a hit marks    *)
(* only the copy that is sent: the stored entry keeps cached = false.      *)
(***************************************************************************)
ServedHit == Done /\ Succeeded /\ calls.get = 1 /\ calls.gen = 0

C33_StoredValueNeverMutated ==
    /\ [](\A k \in DOMAIN cacheMap : ~cacheMap[k].val.Cached)
    /\ [](ServedHit =>
            /\ Out.Cached
            /\ Out = [cacheMap[key].val EXCEPT !.Cached = TRUE])
    /\ [][\A k \in DOMAIN cacheMap :
            cacheMap'[k] # cacheMap[k] =>
                /\ pc = "store" /\ key = k
                /\ calls'.set = calls.set + 1]_vars

C33_Witness ==
    /\ ServedHit
    /\ handler = "stream"
    /\ Out.Cached /\ ~cacheMap[key].val.Cached
    /\ Len(cacheMap[key].val.Candidates) = 3

(***************************************************************************)
(* C34: at the moment cacheSet writes an entry its expiry instant is       *)
(* strictly later than the current time, at every call site: the entry     *)
(* lives 10 minutes in fast mode and 30 minutes in quality mode.           *)
(***************************************************************************)
C34_ExpiryInTheFutureWhenWritten ==
    [][cacheMap' # cacheMap =>
          /\ key \in DOMAIN cacheMap'
          /\ cacheMap'[key].exp > now
          /\ cacheMap'[key].exp - now = (IF mode = QUALITY THEN 30 ELSE 10)
          /\ cacheGet(key, now)' = [val |-> cacheMap'[key].val, ok |-> TRUE]]_vars

C34_Witness ==
    /\ pc = "reply"
    /\ mode = QUALITY /\ handler = "stream"
    /\ now > 0
    /\ cacheMap[key].exp = now + 30

(***************************************************************************)
(* C35: every candidate fanOut returns has text that is non-empty after    *)
(* trimming and comes from a backend call that returned no error; no       *)
(* candidate with empty text reaches the selection policy, the judge, the  *)
(* response or the cache.                                                  *)
(***************************************************************************)
GoodCandidate(c) ==
    /\ c.Text # <<>>
    /\ TrimSpace(c.Text) # <<>>
    /\ ~backend.gen[c.Provider].err
    /\ c.Text = TrimSpace(backend.gen[c.Provider].text)

AllGood(cs) == \A i \in 1..Len(cs) : GoodCandidate(cs[i])

C35_CandidatesHoldText ==
    /\ AllGood(cands)
    /\ \A k \in DOMAIN cacheMap : AllGood(cacheMap[k].val.Candidates)
    /\ (Done /\ Succeeded) => AllGood(Out.Candidates)

C35_Witness ==
    /\ Done /\ Succeeded /\ calls.gen > 0
    /\ Len(Out.Candidates) = 1
    /\ key \in DOMAIN cacheMap /\ Len(cacheMap[key].val.Candidates) = 1
    /\ \E p \in ProviderSet(mode) :
          ~backend.gen[p].err /\ TrimSpace(backend.gen[p].text) = <<>>
    /\ \E p \in ProviderSet(mode) : backend.gen[p].err

(***************************************************************************)
(* C36: in the synchronous handler, fast mode after a successful judge     *)
(* attempts the synthesis only when the text of the top-ranked candidate   *)
(* is shorter than 500 characters; when it has 500 characters or more no   *)
(* synthesis call is made and final is that text verbatim.                 *)
(***************************************************************************)
SyncFastJudged ==
    /\ handler = "sync" /\ mode = FAST
    /\ pc \in {"store", "reply", "done"}
    /\ calls.judge = 1 /\ scores # <<>>

TopText == cands[scores[1].Idx + 1].Text

C36_FastSynthesisOnlyBelowLimit ==
    SyncFastJudged =>
        /\ (calls.synth = 1) = (StrLen(TopText) < 500)
        /\ (calls.synth = 0) = (StrLen(TopText) >= 500)
        /\ StrLen(TopText) >= 500 => final = TopText

C36_Witness ==
    /\ SyncFastJudged /\ Done /\ Succeeded
    /\ StrLen(TopText) = 500
    /\ calls.synth = 0
    /\ Out.Final = TopText
    /\ ~ollamaGenerate(backend.synth).err
    /\ TrimSpace(ollamaGenerate(backend.synth).text) # <<>>

(***************************************************************************)
(* C37: when the sink fails during the streamed synthesis (writing a delta *)
(* frame returns an error) ollamaGenerateStream forwards no further        *)
(* fragment and returns an error, and handleAnswerStream treats it as a    *)
(* failed synthesis: the response stored and reported in the summary has   *)
(* final equal to the text of the top-ranked candidate, not the partly     *)
(* merged text.                                                            *)
(***************************************************************************)
\* The fragments a reply delivers up to its final chunk or first undecodable line
RECURSIVE Forwardable(_)
Forwardable(lines) ==
    IF lines = <<>> THEN <<>>
    ELSE LET ln == Head(lines) IN
         IF ln.kind = "bad" THEN <<>>
         ELSE IF ln.kind = "blank" THEN Forwardable(Tail(lines))
         ELSE (IF ln.Response # <<>> THEN <<ln.Response>> ELSE <<>>)
              \o (IF ln.Done THEN <<>> ELSE Forwardable(Tail(lines)))

SinkFails(reply) ==
    ~reply.err /\ reply.sinkFailAt \in 1..Len(Forwardable(reply.lines))

StreamSynthesised ==
    /\ handler = "stream" /\ calls.synth = 1
    /\ pc \in {"store", "reply", "done"}

DeltaTexts(w) ==
    LET ds == SelectSeq(w, IsDelta) IN [i \in 1..Len(ds) |-> ds[i].Text]

C37_SinkFailureFallsBackToTop ==
    (StreamSynthesised /\ SinkFails(backend.synth)) =>
        /\ ollamaGenerateStream(backend.synth).err
        /\ DeltaTexts(frames) =
              SubSeq(Forwardable(backend.synth.lines), 1, backend.synth.sinkFailAt)
                 \o <<TopText>>
        /\ final = TopText
        /\ pc \in {"reply", "done"} => cacheMap[key].val.Final = TopText
        /\ Done => EndsInSummary(frames) /\ Summary(frames).Final = TopText

C37_Witness ==
    /\ StreamSynthesised /\ Done
    /\ SinkFails(backend.synth) /\ backend.synth.sinkFailAt = 2
    /\ Len(Forwardable(backend.synth.lines)) = 3
    /\ Summary(frames).Final = TopText
    /\ cacheMap[key].val.Final = TopText

(***************************************************************************)
(* C38: cacheGet never modifies the cache: a hit does not extend the       *)
(* expiry of the entry, and a lookup of an expired or absent key neither   *)
(* removes nor adds an entry.  Only cacheSet changes cacheMap, and no      *)
(* operation deletes a key: the set of keys only grows.                    *)
(***************************************************************************)
InGet(c) == procs[c].op = "get"
InSet(c) == procs[c].op = "set"

C38_LookupLeavesCacheAlone ==
    [][ /\ DOMAIN cacheMap \subseteq DOMAIN cacheMap'
        /\ (\E c \in Callers : (InGet(c) \/ InGet(c)') /\ procs'[c] # procs[c])
              => cacheMap' = cacheMap
        /\ cacheMap' # cacheMap =>
              \E c \in Callers :
                  /\ InSet(c) /\ procs'[c] # procs[c]
                  /\ \A k \in DOMAIN cacheMap \ {procs[c].key} :
                        cacheMap'[k] = cacheMap[k] ]_vars

C38_Witness ==
    /\ \E c \in Callers :
          /\ InGet(c) /\ procs[c].pc = "done" /\ procs[c].ret.ok
          /\ cacheMap[procs[c].key] = procs[c].it
    /\ \E c \in Callers :
          /\ InGet(c) /\ procs[c].pc = "done"
          /\ procs[c].ok /\ ~procs[c].ret.ok /\ now > procs[c].it.exp
          /\ procs[c].key \in DOMAIN cacheMap
          /\ cacheMap[procs[c].key] = procs[c].it

(***************************************************************************)
(* C39: the synchronous and the streaming handler share one cache, keyed   *)
(* by (mode, trimmed prompt) alone: a response stored by either handler is *)
(* served as a hit by the other for the same key within its TTL, with no   *)
(* backend call and with the stored final and candidates unchanged.        *)
(***************************************************************************)
OtherHandler(h) == IF h = "sync" THEN "stream" ELSE "sync"

\* The handler receiving the request has stored nothing in mode m: what is
\* in the cache for (p, m) was stored by the other handler
StoredByOther(h, p, m) ==
    /\ Fresh(p, m)
    /\ finals[<<h, m>>] = <<>>
    /\ finals[<<OtherHandler(h), m>>] = <<served[<<p, m>>][1].resp>>

C39_HandlersShareTheCache ==
    [][ LET p == TrimSpace(req'.Prompt)
            m == normMode(req'.Mode)
            stored == finals[<<OtherHandler(handler'), m>>][1]
        IN  (ReceivesValid /\ StoredByOther(handler', p, m)) =>
                /\ pc' = "done" /\ Succeeded'
                /\ calls' = [NoCalls EXCEPT !.get = 1]
                /\ key' = cacheKey(p, m)
                /\ cacheMap' = cacheMap /\ cacheMap[key'].val = stored
                /\ Out'.Cached
                /\ Out'.Final = stored.Final
                /\ Out'.Candidates = stored.Candidates
                /\ Out'.Mode = stored.Mode ]_vars

C39_Witness ==
    /\ ServedHit
    /\ handler = "stream"
    /\ finals[<<"stream", mode>>] = <<>>
    /\ finals[<<"sync", mode>>] # <<>>
    /\ Out = [finals[<<"sync", mode>>][1] EXCEPT !.Cached = TRUE]
    /\ Len(Out.Candidates) >= 2

(***************************************************************************)
(* C40: in fanOut every worker goroutine sends exactly one result on the   *)
(* result channel, whose capacity is the number of providers, so no send   *)
(* blocks; the channel is closed only after all workers have finished, so  *)
(* nothing is sent on a closed channel; the collecting loop ends exactly   *)
(* when every worker has returned, having received one result per          *)
(* provider.                                                               *)
(***************************************************************************)
FanRunning  == fpc \in {"collect", "returned"}
DoneWorkers == {p \in DOMAIN workers : workers[p].st = "done"}
NProviders  == Len(providersFor(mode))
AllWorkersDone == FanRunning /\ DoneWorkers = ProviderSet(mode)

C40_OneResultPerWorker ==
    /\ [](FanRunning =>
            /\ Len(ch) + Len(taken) = Cardinality(DoneWorkers)
            /\ Len(ch) <= NProviders
            /\ wg = NProviders - Cardinality(DoneWorkers)
            /\ closed => AllWorkersDone
            /\ fpc = "returned" =>
                  /\ closed /\ ch = <<>> /\ AllWorkersDone
                  /\ Len(taken) = NProviders)
    /\ [][ /\ closed => (Len(ch') <= Len(ch) /\ workers' = workers)
           /\ \A p \in DOMAIN workers :
                 workers'[p] # workers[p] =>
                    /\ workers[p].st = "calling" /\ workers'[p].st = "done"
                    /\ Len(ch') = Len(ch) + 1
                    /\ \A q \in DOMAIN workers \ {p} : workers'[q] = workers[q] ]_vars
    /\ AllWorkersDone ~> (fpc = "returned")

C40_Witness ==
    /\ fpc = "returned"
    /\ mode = QUALITY
    /\ Len(taken) = 3
    /\ \E i \in 1..3 : taken[i].err
    /\ \E i \in 1..3 : ~taken[i].err /\ taken[i].c.Text = <<>>
    /\ Len(cands) = 1

(***************************************************************************)
(* C31: the fan-out, the judge call and the synthesis call of one          *)
(* execution all run under the one deadline created before the fan-out     *)
(* (45 s after the start of the pipeline in fast mode, 120 s in quality    *)
(* mode); it is never reset or extended between the stages, so the time an *)
(* earlier stage has taken is no longer there for the later ones.          *)
(***************************************************************************)
StageRank(s) == IF s = "fanout" THEN 1 ELSE IF s = "judge" THEN 2 ELSE 3

C31_OneDeadlineForAllStages ==
    /\ \A i \in 1..Len(ctxCalls) :
          LET c == ctxCalls[i] IN
          /\ c.deadline = (IF mode = QUALITY THEN 120 ELSE 45)
          /\ c.end <= c.deadline
          /\ c.err = (c.start + c.dur > c.deadline)
          /\ \A j \in 1..Len(ctxCalls) :
                StageRank(ctxCalls[j].stage) < StageRank(c.stage) =>
                    /\ j < i
                    /\ c.start >= ctxCalls[j].end
                    /\ c.deadline - c.start <= ctxCalls[j].deadline - ctxCalls[j].end
    /\ \A i \in 1..Len(ctxCalls) :
          (ctxCalls[i].stage = "judge" /\ ctxCalls[i].err /\ pc \in {"store", "reply", "done"})
              => (scores = <<>> /\ calls.synth = 0 /\ final = fastPick(cands).Text)

C31_Witness ==
    /\ Done /\ Succeeded /\ mode = QUALITY
    /\ \E i, j, k \in 1..Len(ctxCalls) :
          /\ ctxCalls[i].stage = "fanout" /\ ctxCalls[i].end = 50
          /\ ctxCalls[j].stage = "judge" /\ ~ctxCalls[j].err /\ ctxCalls[j].end = 100
          /\ ctxCalls[k].stage = "synth" /\ ctxCalls[k].dur = 50
          /\ ctxCalls[k].err /\ ctxCalls[k].end = 120
    /\ Out.Final = cands[scores[1].Idx + 1].Text

====
